---- MODULE Spec2Model ----
(***************************************************************************)
(* The rules engine of UNO Lite (packages/core: game.ts, deck.ts,          *)
(* types.ts) as a state machine.  One GameState value is created by        *)
(* createGame and then mutated by joinGame / startGame / playCard /        *)
(* drawCard / passTurn.  Every engine function is an operator that takes   *)
(* the GameState record and returns the (possibly mutated) record together *)
(* with the Result it returns; one action per exported operation applies   *)
(* it for every caller-supplied argument.                                  *)
(*                                                                         *)
(* Scaling.  The real deck has 4 colors and values 0..9 (76 cards) and 7   *)
(* cards are dealt per player.  Exhaustive exploration of that game is out *)
(* of reach, so the deck dimensions are bounds: the first NumColors colors *)
(* of UNO_COLORS, the values 0..MaxValue of UNO_VALUES and                 *)
(* CARDS_PER_PLAYER cards per hand.  Every operator is written for         *)
(* arbitrary dimensions.  A run is explored up to MaxMoves successful      *)
(* play / draw / pass calls; failing calls are never cut off.              *)
(*                                                                         *)
(* The bot (apps/bot: rooms.ts, index.ts) keeps one GameState per room.    *)
(* Its RoomManager, its /create, /join, /leave, /hand and /state handlers   *)
(* and its callback queries are a second state machine, SpecBot, which     *)
(* applies the engine operators to the games of the rooms; a run of it is  *)
(* explored up to MaxBotSteps handler calls that change the rooms.         *)
(***************************************************************************)
EXTENDS Integers, Sequences, FiniteSets, TLC

----------------------------------------------------------------------------
(* Bounds *)

NumColors == 3
MaxValue == 1
CARDS_PER_PLAYER == 2
RandDen == 2
MaxMoves == 16
MaxBotSteps == 5

----------------------------------------------------------------------------
(* types.ts *)

ALL_COLORS == <<"red", "green", "blue", "yellow">>
ALL_VALUES == <<0, 1, 2, 3, 4, 5, 6, 7, 8, 9>>

Min(a, b) == IF a < b THEN a ELSE b

UNO_COLORS == SubSeq(ALL_COLORS, 1, Min(NumColors, Len(ALL_COLORS)))
UNO_VALUES == SubSeq(ALL_VALUES, 1, Min(MaxValue + 1, Len(ALL_VALUES)))

\* An optional field (currentColor?, currentValue?, winnerId?, turn?) is the
\* empty sequence when undefined and a one-element sequence when defined.
None == <<>>
Some(x) == <<x>>

\* Result<T>: { ok: true, value } | { ok: false, error: { code, message } }
ok == [ok |-> TRUE, code |-> "OK"]
err(code) == [ok |-> FALSE, code |-> code]

----------------------------------------------------------------------------
(* Caller-supplied inputs *)

RoomId == "room-1"
HostId == "alice"
PlayerIds == {"alice", "bob", "carol"}
\* values Date.now() may return: two suffice to tell a refreshed timestamp
\* from an untouched one
Times == {0, 1}

\* A random source is a function returning values in [0,1).  It is modelled
\* as a periodic stream of rationals k/RandDen (k in 0..RandDen-1) given by
\* the sequence of numerators of one period: a constant source (such as the
\* () => 0 and () => 0.5 of the tests; () => 0 is <<0>>) or a source that
\* alternates between a value and the next one.
RandomFns ==
    {<<a>> : a \in 0..(RandDen - 1)}
        \cup {<<a, (a + 1) % RandDen>> : a \in 0..(RandDen - 1)}

\* The value (numerator) returned by the n-th call (n = 0, 1, ...) of random
randomCall(random, n) == random[(n % Len(random)) + 1]

----------------------------------------------------------------------------
(* deck.ts *)

cardId(n) == "card-" \o ToString(n)

RECURSIVE colorCards_OneCopy(_, _, _, _)
colorCards_OneCopy(color, values, k, idCounter) ==
    IF k > Len(values) THEN <<>>
    ELSE IF values[k] = 0 THEN colorCards_OneCopy(color, values, k + 1, idCounter)
    ELSE << [id |-> cardId(idCounter), color |-> color, value |-> values[k]] >>
         \o colorCards_OneCopy(color, values, k + 1, idCounter + 1)

\* the cards pushed for one color, starting with id counter idCounter
RECURSIVE colorCards(_, _, _, _)
colorCards(color, values, k, idCounter) ==
    IF k > Len(values) THEN <<>>
    ELSE IF values[k] = 0 THEN colorCards(color, values, k + 1, idCounter)
    ELSE << [id |-> cardId(idCounter), color |-> color, value |-> values[k]],
            [id |-> cardId(idCounter + 1), color |-> color, value |-> values[k]] >>
         \o colorCards(color, values, k + 1, idCounter + 2)

RECURSIVE deckFrom(_, _, _, _)
deckFrom(colors, values, c, idCounter) ==
    IF c > Len(colors) THEN <<>>
    ELSE LET zero == [id |-> cardId(idCounter), color |-> colors[c], value |-> 0]
             rest == colorCards(colors[c], values, 1, idCounter + 1)
         IN  <<zero>> \o rest \o deckFrom(colors, values, c + 1, idCounter + 1 + Len(rest))

createDeck == deckFrom(UNO_COLORS, UNO_VALUES, 1, 0)

\* createDeck at the dimensions of the program: 4 colors, values 0..9
FullDeck == deckFrom(ALL_COLORS, ALL_VALUES, 1, 0)

swap_Overwrites(copy, i, j) == [copy EXCEPT ![i + 1] = copy[j + 1]]

\* [copy[i], copy[j]] = [copy[j], copy[i]]  (0-based i, j)
swap(copy, i, j) == [copy EXCEPT ![i + 1] = copy[j + 1], ![j + 1] = copy[i + 1]]

\* the loop of shuffle: i runs from copy.length - 1 down to 1, n counts the
\* calls of random() made so far; j = Math.floor(random() * (i + 1))
RECURSIVE shuffleLoop(_, _, _, _)
shuffleLoop(copy, random, i, n) ==
    IF i > 0
    THEN LET j == (randomCall(random, n) * (i + 1)) \div RandDen
         IN  shuffleLoop(swap(copy, i, j), random, i - 1, n + 1)
    ELSE copy

shuffle(items, random) == shuffleLoop(items, random, Len(items) - 1, 0)

\* one call of shuffle seen from the caller: the array passed in as it is
\* after the call (const copy = [...items] leaves it alone) and the array
\* returned
shuffleCall(items, random) ==
    LET copy == items
    IN  [items |-> items, value |-> shuffleLoop(copy, random, Len(copy) - 1, 0)]

\* items.pop(): the removed last element (None when empty) and what is left
drawTopCard_LeavesLast(items) ==
    IF Len(items) <= 1
    THEN [card |-> None, items |-> items]
    ELSE [card |-> Some(items[Len(items)]), items |-> SubSeq(items, 1, Len(items) - 1)]

drawTopCard(items) ==
    IF Len(items) = 0
    THEN [card |-> None, items |-> items]
    ELSE [card |-> Some(items[Len(items)]), items |-> SubSeq(items, 1, Len(items) - 1)]

----------------------------------------------------------------------------
(* game.ts: helpers *)

\* state.players.findIndex(...): 0-based index of the first match, -1 if none
RECURSIVE findIndexFrom(_, _, _)
findIndexFrom(players, playerId, k) ==
    IF k > Len(players) THEN -1
    ELSE IF players[k].id = playerId THEN k - 1
    ELSE findIndexFrom(players, playerId, k + 1)

findPlayerIndex(state, playerId) == findIndexFrom(state.players, playerId, 1)

\* player.hand.findIndex((card) => card.id === cardId)
RECURSIVE findCardIndexFrom(_, _, _)
findCardIndexFrom(hand, id, k) ==
    IF k > Len(hand) THEN -1
    ELSE IF hand[k].id = id THEN k - 1
    ELSE findCardIndexFrom(hand, id, k + 1)

findCardIndex(hand, id) == findCardIndexFrom(hand, id, 1)

\* order.indexOf(currentId)
RECURSIVE indexOfFrom(_, _, _)
indexOfFrom(order, x, k) ==
    IF k > Len(order) THEN -1
    ELSE IF order[k] = x THEN k - 1
    ELSE indexOfFrom(order, x, k + 1)

getNextPlayerId_SameIndex(state, currentId) ==
    LET order == state.playerOrder
        idx == indexOfFrom(order, currentId, 1)
    IN  IF idx = -1 THEN currentId
        ELSE order[(idx % Len(order)) + 1]

getNextPlayerId(state, currentId) ==
    LET order == state.playerOrder
        idx == indexOfFrom(order, currentId, 1)
    IN  IF idx = -1 THEN currentId
        ELSE order[((idx + 1) % Len(order)) + 1]

isCardPlayable_AndRule(card, currentColor, currentValue) ==
    Some(card.color) = currentColor /\ Some(card.value) = currentValue

isCardPlayable(card, currentColor, currentValue) ==
    Some(card.color) = currentColor \/ Some(card.value) = currentValue

ensureActivePlayer_AnyTurn(state, playerId) ==
    IF state.turn = None
    THEN err("NOT_PLAYER_TURN")
    ELSE ok

ensureActivePlayer(state, playerId) ==
    IF state.turn = None \/ state.turn[1].activePlayerId # playerId
    THEN err("NOT_PLAYER_TURN")
    ELSE ok

\* t is the value Date.now() returns at the call
refreshTimestamp(state, t) == [state EXCEPT !.updatedAt = t]

replenishDrawPile_RestKeepsTop(state, random) ==
    LET discardSize == Len(state.discardPile)
    IN  IF discardSize <= 1
        THEN [state |-> state, result |-> err("NO_CARDS_TO_DRAW")]
        ELSE LET topCard == state.discardPile[discardSize]
                 rest == SubSeq(state.discardPile, 1, discardSize)
             IN  [state |-> [state EXCEPT !.drawPile = shuffle(rest, random),
                                          !.discardPile = <<topCard>>],
                  result |-> ok]

replenishDrawPile_ShufflesTop(state, random) ==
    LET discardSize == Len(state.discardPile)
    IN  IF discardSize <= 1
        THEN [state |-> state, result |-> err("NO_CARDS_TO_DRAW")]
        ELSE [state |-> [state EXCEPT !.drawPile = shuffle(state.discardPile, random),
                                      !.discardPile = <<>>],
              result |-> ok]

replenishDrawPile_KeepsDiscard(state, random) ==
    LET discardSize == Len(state.discardPile)
    IN  IF discardSize <= 1
        THEN [state |-> state, result |-> err("NO_CARDS_TO_DRAW")]
        ELSE LET rest == SubSeq(state.discardPile, 1, discardSize - 1)
             IN  [state |-> [state EXCEPT !.drawPile = shuffle(rest, random)],
                  result |-> ok]

replenishDrawPile_DropsBottom(state, random) ==
    LET discardSize == Len(state.discardPile)
    IN  IF discardSize <= 1
        THEN [state |-> state, result |-> err("NO_CARDS_TO_DRAW")]
        ELSE LET topCard == state.discardPile[discardSize]
                 rest == SubSeq(state.discardPile, 2, discardSize - 1)
             IN  [state |-> [state EXCEPT !.drawPile = shuffle(rest, random),
                                          !.discardPile = <<topCard>>],
                  result |-> ok]

replenishDrawPile_AllowsOne(state, random) ==
    LET discardSize == Len(state.discardPile)
    IN  IF discardSize < 1
        THEN [state |-> state, result |-> err("NO_CARDS_TO_DRAW")]
        ELSE LET topCard == state.discardPile[discardSize]
                 rest == SubSeq(state.discardPile, 1, discardSize - 1)
             IN  [state |-> [state EXCEPT !.drawPile = shuffle(rest, random),
                                          !.discardPile = <<topCard>>],
                  result |-> ok]

replenishDrawPile_NeverRecycles(state, random) ==
    [state |-> state, result |-> err("NO_CARDS_TO_DRAW")]

replenishDrawPile(state, random) ==
    LET discardSize == Len(state.discardPile)
    IN  IF discardSize <= 1
        THEN [state |-> state, result |-> err("NO_CARDS_TO_DRAW")]
        ELSE LET topCard == state.discardPile[discardSize]
                 rest == SubSeq(state.discardPile, 1, discardSize - 1)
             IN  [state |-> [state EXCEPT !.drawPile = shuffle(rest, random),
                                          !.discardPile = <<topCard>>],
                  result |-> ok]

----------------------------------------------------------------------------
(* game.ts: createGame, joinGame *)

\* tCreated, tUpdated are the values of the two now() calls
createGame(roomId, hostId, tCreated, tUpdated) ==
    [ roomId |-> roomId,
      phase |-> "waiting-for-player",
      players |-> << [id |-> hostId, hand |-> <<>>] >>,
      playerOrder |-> <<hostId>>,
      drawPile |-> <<>>,
      discardPile |-> <<>>,
      currentColor |-> None,
      currentValue |-> None,
      winnerId |-> None,
      turn |-> None,
      createdAt |-> tCreated,
      updatedAt |-> tUpdated ]

\* the three precondition checks of joinGame, in order; ok when all pass
joinGameChecks_ForgetsFinished(state, playerId) ==
    IF state.phase = "in-progress"
    THEN err("GAME_ALREADY_STARTED")
    ELSE IF findPlayerIndex(state, playerId) # -1
    THEN err("PLAYER_ALREADY_JOINED")
    ELSE IF Len(state.players) >= 2
    THEN err("ROOM_FULL")
    ELSE ok

joinGameChecks_NoRoomFull(state, playerId) ==
    IF state.phase # "waiting-for-player" /\ state.phase # "ready-to-start"
    THEN err("GAME_ALREADY_STARTED")
    ELSE IF findPlayerIndex(state, playerId) # -1
    THEN err("PLAYER_ALREADY_JOINED")
    ELSE ok

joinGameChecks_NoDupCheck(state, playerId) ==
    IF state.phase # "waiting-for-player" /\ state.phase # "ready-to-start"
    THEN err("GAME_ALREADY_STARTED")
    ELSE IF Len(state.players) >= 2
    THEN err("ROOM_FULL")
    ELSE ok

joinGameChecks_FullBeforeDup(state, playerId) ==
    IF state.phase # "waiting-for-player" /\ state.phase # "ready-to-start"
    THEN err("GAME_ALREADY_STARTED")
    ELSE IF Len(state.players) >= 2
    THEN err("ROOM_FULL")
    ELSE IF findPlayerIndex(state, playerId) # -1
    THEN err("PLAYER_ALREADY_JOINED")
    ELSE ok

joinGameChecks(state, playerId) ==
    IF state.phase # "waiting-for-player" /\ state.phase # "ready-to-start"
    THEN err("GAME_ALREADY_STARTED")
    ELSE IF findPlayerIndex(state, playerId) # -1
    THEN err("PLAYER_ALREADY_JOINED")
    ELSE IF Len(state.players) >= 2
    THEN err("ROOM_FULL")
    ELSE ok

joinGame_PhaseBeforePush(state, playerId, t) ==
    LET check == joinGameChecks(state, playerId)
    IN  IF ~check.ok THEN [state |-> state, result |-> check]
        ELSE LET players == Append(state.players, [id |-> playerId, hand |-> <<>>])
                 s1 == [state EXCEPT
                          !.players = players,
                          !.playerOrder = Append(state.playerOrder, playerId),
                          !.phase = IF Len(state.players) = 2 THEN "ready-to-start"
                                    ELSE "waiting-for-player"]
             IN  [state |-> refreshTimestamp(s1, t), result |-> ok]

joinGame(state, playerId, t) ==
    LET check == joinGameChecks(state, playerId)
    IN  IF ~check.ok THEN [state |-> state, result |-> check]
        ELSE LET players == Append(state.players, [id |-> playerId, hand |-> <<>>])
                 s1 == [state EXCEPT
                          !.players = players,
                          !.playerOrder = Append(state.playerOrder, playerId),
                          !.phase = IF Len(players) = 2 THEN "ready-to-start"
                                    ELSE "waiting-for-player"]
             IN  [state |-> refreshTimestamp(s1, t), result |-> ok]

----------------------------------------------------------------------------
(* game.ts: startGame *)

\* the two precondition checks of startGame, in order; ok when both pass
startGameChecks_NoStartedCheck(state) ==
    IF Len(state.players) < 2
    THEN err("NOT_ENOUGH_PLAYERS")
    ELSE ok

startGameChecks(state) ==
    IF Len(state.players) < 2
    THEN err("NOT_ENOUGH_PLAYERS")
    ELSE IF state.phase = "in-progress" \/ state.phase = "finished"
    THEN err("GAME_ALREADY_STARTED")
    ELSE ok

\* state.players[playerIndex]?.hand.push(card)
pushToHand_AlwaysFirst(players, playerIndex, card) ==
    IF playerIndex < 0 \/ playerIndex >= Len(players) THEN players
    ELSE [players EXCEPT ![1].hand = Append(@, card)]

pushToHand(players, playerIndex, card) ==
    IF playerIndex < 0 \/ playerIndex >= Len(players) THEN players
    ELSE [players EXCEPT ![playerIndex + 1].hand = Append(@, card)]

\* The nested dealing loops of startGame, flattened: step k (0-based) is
\* round i = k \div playerOrder.length, player playerOrder[k % length].
\* Returns the mutated state, what is left of the deck, and whether a card
\* was missing (the early return with DRAW_PILE_EMPTY).
RECURSIVE dealLoop_PlayerByPlayer(_, _, _)
dealLoop_PlayerByPlayer(state, deck, k) ==
    IF Len(state.playerOrder) = 0 \/ k >= CARDS_PER_PLAYER * Len(state.playerOrder)
    THEN [state |-> state, deck |-> deck, empty |-> FALSE]
    ELSE LET playerId == state.playerOrder[(k \div CARDS_PER_PLAYER) + 1]
             drawn == drawTopCard(deck)
         IN  IF drawn.card = None
             THEN [state |-> state, deck |-> drawn.items, empty |-> TRUE]
             ELSE LET playerIndex == findPlayerIndex(state, playerId)
                      s1 == [state EXCEPT !.players =
                                pushToHand(state.players, playerIndex, drawn.card[1])]
                  IN  dealLoop_PlayerByPlayer(s1, drawn.items, k + 1)

RECURSIVE dealLoop(_, _, _)
dealLoop(state, deck, k) ==
    IF Len(state.playerOrder) = 0 \/ k >= CARDS_PER_PLAYER * Len(state.playerOrder)
    THEN [state |-> state, deck |-> deck, empty |-> FALSE]
    ELSE LET playerId == state.playerOrder[(k % Len(state.playerOrder)) + 1]
             drawn == drawTopCard(deck)
         IN  IF drawn.card = None
             THEN [state |-> state, deck |-> drawn.items, empty |-> TRUE]
             ELSE LET playerIndex == findPlayerIndex(state, playerId)
                      s1 == [state EXCEPT !.players =
                                pushToHand(state.players, playerIndex, drawn.card[1])]
                  IN  dealLoop(s1, drawn.items, k + 1)

\* the deck shuffled with a source taken from the clock instead of random
startGame_AmbientRandom(state, random, t) ==
    LET check == startGameChecks(state)
    IN  IF ~check.ok THEN [state |-> state, result |-> check]
        ELSE
        LET deck == shuffle(createDeck, <<t % RandDen>>)
            dealt == dealLoop(state, deck, 0)
        IN  IF dealt.empty
            THEN [state |-> dealt.state, result |-> err("DRAW_PILE_EMPTY")]
            ELSE
            LET first == drawTopCard(dealt.deck)
            IN  IF first.card = None
                THEN [state |-> dealt.state, result |-> err("DRAW_PILE_EMPTY")]
                ELSE
                LET firstDiscard == first.card[1]
                    s1 == [dealt.state EXCEPT
                             !.drawPile = first.items,
                             !.discardPile = <<firstDiscard>>,
                             !.currentColor = Some(firstDiscard.color),
                             !.currentValue = Some(firstDiscard.value),
                             !.phase = "in-progress",
                             !.winnerId = None,
                             !.turn = Some([activePlayerId |-> state.playerOrder[1],
                                            hasDrawnCard |-> FALSE])]
                IN  [state |-> refreshTimestamp(s1, t), result |-> ok]

startGame(state, random, t) ==
    LET check == startGameChecks(state)
    IN  IF ~check.ok THEN [state |-> state, result |-> check]
        ELSE
        LET deck == shuffle(createDeck, random)
            dealt == dealLoop(state, deck, 0)
        IN  IF dealt.empty
            THEN [state |-> dealt.state, result |-> err("DRAW_PILE_EMPTY")]
            ELSE
            LET first == drawTopCard(dealt.deck)
            IN  IF first.card = None
                THEN [state |-> dealt.state, result |-> err("DRAW_PILE_EMPTY")]
                ELSE
                LET firstDiscard == first.card[1]
                    s1 == [dealt.state EXCEPT
                             !.drawPile = first.items,
                             !.discardPile = <<firstDiscard>>,
                             !.currentColor = Some(firstDiscard.color),
                             !.currentValue = Some(firstDiscard.value),
                             !.phase = "in-progress",
                             !.winnerId = None,
                             !.turn = Some([activePlayerId |-> state.playerOrder[1],
                                            hasDrawnCard |-> FALSE])]
                IN  [state |-> refreshTimestamp(s1, t), result |-> ok]

----------------------------------------------------------------------------
(* game.ts: listPlayableCards, advanceTurn, playCard *)

\* hand.filter((card) => isCardPlayable(card, currentColor, currentValue))
RECURSIVE filterPlayable(_, _, _)
filterPlayable(hand, currentColor, currentValue) ==
    IF hand = <<>> THEN <<>>
    ELSE (IF isCardPlayable(Head(hand), currentColor, currentValue)
          THEN <<Head(hand)>> ELSE <<>>)
         \o filterPlayable(Tail(hand), currentColor, currentValue)

listPlayableCards_ErrWhenEmpty(state, playerId) ==
    IF state.currentColor = None \/ state.currentValue = None
    THEN [result |-> err("GAME_NOT_READY"), value |-> <<>>]
    ELSE LET playerIndex == findPlayerIndex(state, playerId)
             playable == IF playerIndex = -1 THEN <<>>
                         ELSE filterPlayable(state.players[playerIndex + 1].hand,
                                             state.currentColor, state.currentValue)
         IN  IF playerIndex = -1
             THEN [result |-> err("PLAYER_ALREADY_JOINED"), value |-> <<>>]
             ELSE IF playable = <<>>
             THEN [result |-> err("NO_PLAYABLE_CARDS"), value |-> <<>>]
             ELSE [result |-> ok, value |-> playable]

listPlayableCards_SeatCheckFirst(state, playerId) ==
    LET playerIndex == findPlayerIndex(state, playerId)
    IN  IF playerIndex = -1
        THEN [result |-> err("PLAYER_ALREADY_JOINED"), value |-> <<>>]
        ELSE IF state.currentColor = None \/ state.currentValue = None
        THEN [result |-> err("GAME_NOT_READY"), value |-> <<>>]
        ELSE [result |-> ok,
              value |-> filterPlayable(state.players[playerIndex + 1].hand,
                                       state.currentColor, state.currentValue)]

listPlayableCards(state, playerId) ==
    IF state.currentColor = None \/ state.currentValue = None
    THEN [result |-> err("GAME_NOT_READY"), value |-> <<>>]
    ELSE LET playerIndex == findPlayerIndex(state, playerId)
         IN  IF playerIndex = -1
             THEN [result |-> err("PLAYER_ALREADY_JOINED"), value |-> <<>>]
             ELSE [result |-> ok,
                   value |-> filterPlayable(state.players[playerIndex + 1].hand,
                                            state.currentColor, state.currentValue)]

advanceTurn_RotatesOrder(state) ==
    IF state.turn = None THEN state
    ELSE LET nextPlayer == getNextPlayerId(state, state.turn[1].activePlayerId)
         IN  [state EXCEPT !.turn = Some([activePlayerId |-> nextPlayer,
                                          hasDrawnCard |-> FALSE]),
                           !.playerOrder = Tail(@) \o <<Head(@)>>]

advanceTurn_MarksDrawn(state) ==
    IF state.turn = None THEN state
    ELSE LET nextPlayer == getNextPlayerId(state, state.turn[1].activePlayerId)
         IN  [state EXCEPT !.turn = Some([activePlayerId |-> nextPlayer,
                                          hasDrawnCard |-> TRUE])]

advanceTurn_KeepsDrawnFlag(state) ==
    IF state.turn = None THEN state
    ELSE LET nextPlayer == getNextPlayerId(state, state.turn[1].activePlayerId)
         IN  [state EXCEPT !.turn = Some([activePlayerId |-> nextPlayer,
                                          hasDrawnCard |-> state.turn[1].hasDrawnCard])]

advanceTurn(state) ==
    IF state.turn = None THEN state
    ELSE LET nextPlayer == getNextPlayerId(state, state.turn[1].activePlayerId)
         IN  [state EXCEPT !.turn = Some([activePlayerId |-> nextPlayer,
                                          hasDrawnCard |-> FALSE])]

\* hand.splice(cardIndex, 1)  (0-based cardIndex)
splice(hand, cardIndex) ==
    SubSeq(hand, 1, cardIndex) \o SubSeq(hand, cardIndex + 2, Len(hand))

\* lines 198-201 of playCard: move the card from the hand to the discard pile
discardFromHand_KeepsValue(state, playerIndex, cardIndex) ==
    LET card == state.players[playerIndex + 1].hand[cardIndex + 1]
    IN  [state EXCEPT
           !.players[playerIndex + 1].hand = splice(@, cardIndex),
           !.discardPile = Append(@, card),
           !.currentColor = Some(card.color)]

discardFromHand(state, playerIndex, cardIndex) ==
    LET card == state.players[playerIndex + 1].hand[cardIndex + 1]
    IN  [state EXCEPT
           !.players[playerIndex + 1].hand = splice(@, cardIndex),
           !.discardPile = Append(@, card),
           !.currentColor = Some(card.color),
           !.currentValue = Some(card.value)]

\* lines 203-209 of playCard: declare the winner or advance the turn
finishOrAdvance_KeepsTurn(state, playerId, playerIndex) ==
    IF Len(state.players[playerIndex + 1].hand) = 0
    THEN [state EXCEPT !.phase = "finished", !.winnerId = Some(playerId)]
    ELSE advanceTurn(state)

finishOrAdvance_WinsEarly(state, playerId, playerIndex) ==
    IF Len(state.players[playerIndex + 1].hand) <= 1
    THEN [state EXCEPT !.phase = "finished", !.winnerId = Some(playerId),
                       !.turn = None]
    ELSE advanceTurn(state)

finishOrAdvance_NeverFinishes(state, playerId, playerIndex) ==
    advanceTurn(state)

finishOrAdvance(state, playerId, playerIndex) ==
    IF Len(state.players[playerIndex + 1].hand) = 0
    THEN [state EXCEPT !.phase = "finished", !.winnerId = Some(playerId),
                       !.turn = None]
    ELSE advanceTurn(state)

playCard_FindsCardFirst(state, playerId, id, t) ==
    IF state.phase # "in-progress"
    THEN [state |-> state, result |-> err("GAME_NOT_READY")]
    ELSE
    LET playerIndex == findPlayerIndex(state, playerId)
    IN  IF playerIndex = -1
        THEN [state |-> state, result |-> err("PLAYER_ALREADY_JOINED")]
        ELSE
        LET player == state.players[playerIndex + 1]
            cardIndex == findCardIndex(player.hand, id)
        IN  IF cardIndex = -1
            THEN [state |-> state, result |-> err("CARD_NOT_FOUND")]
            ELSE
            LET turnCheck == ensureActivePlayer(state, playerId)
            IN  IF ~turnCheck.ok THEN [state |-> state, result |-> turnCheck]
                ELSE
                LET card == player.hand[cardIndex + 1]
                IN  IF ~isCardPlayable(card, state.currentColor, state.currentValue)
                    THEN [state |-> state, result |-> err("CARD_NOT_PLAYABLE")]
                    ELSE
                    LET s1 == discardFromHand(state, playerIndex, cardIndex)
                        s2 == finishOrAdvance(s1, playerId, playerIndex)
                    IN  [state |-> refreshTimestamp(s2, t), result |-> ok]

playCard(state, playerId, id, t) ==
    IF state.phase # "in-progress"
    THEN [state |-> state, result |-> err("GAME_NOT_READY")]
    ELSE
    LET turnCheck == ensureActivePlayer(state, playerId)
    IN  IF ~turnCheck.ok THEN [state |-> state, result |-> turnCheck]
        ELSE
        LET playerIndex == findPlayerIndex(state, playerId)
        IN  IF playerIndex = -1
            THEN [state |-> state, result |-> err("PLAYER_ALREADY_JOINED")]
            ELSE
            LET player == state.players[playerIndex + 1]
                cardIndex == findCardIndex(player.hand, id)
            IN  IF cardIndex = -1
                THEN [state |-> state, result |-> err("CARD_NOT_FOUND")]
                ELSE
                LET card == player.hand[cardIndex + 1]
                IN  IF ~isCardPlayable(card, state.currentColor, state.currentValue)
                    THEN [state |-> state, result |-> err("CARD_NOT_PLAYABLE")]
                    ELSE
                    LET s1 == discardFromHand(state, playerIndex, cardIndex)
                        s2 == finishOrAdvance(s1, playerId, playerIndex)
                    IN  [state |-> refreshTimestamp(s2, t), result |-> ok]

----------------------------------------------------------------------------
(* game.ts: drawCard, passTurn *)

\* a failing drawCard: the state as left by the call, no card
drawFailure(state, error, reshuffled) ==
    [state |-> state, result |-> error, card |-> None, isPlayable |-> FALSE,
     reshuffled |-> reshuffled]

\* lines 248-270 of drawCard: replenish if needed, draw, push, mark the turn
drawFromPile_Prepends(state, playerId, random, t) ==
    LET needed == Len(state.drawPile) = 0
        replenished == IF needed THEN replenishDrawPile(state, random)
                       ELSE [state |-> state, result |-> ok]
    IN  IF ~replenished.result.ok
        THEN drawFailure(replenished.state, replenished.result, FALSE)
        ELSE
        LET s1 == replenished.state
            drawn == drawTopCard(s1.drawPile)
            s2 == [s1 EXCEPT !.drawPile = drawn.items]
        IN  IF drawn.card = None
            THEN drawFailure(s2, err("DRAW_PILE_EMPTY"), needed)
            ELSE
            LET card == drawn.card[1]
                playerIndex == findPlayerIndex(s2, playerId)
            IN  IF playerIndex = -1
                THEN drawFailure(s2, err("PLAYER_ALREADY_JOINED"), needed)
                ELSE
                LET s3 == [s2 EXCEPT
                             !.players[playerIndex + 1].hand = <<card>> \o @,
                             !.turn = Some([@[1] EXCEPT !.hasDrawnCard = TRUE])]
                    playableAfterDraw ==
                        isCardPlayable(card, s3.currentColor, s3.currentValue)
                IN  [state |-> refreshTimestamp(s3, t), result |-> ok,
                     card |-> Some(card), isPlayable |-> playableAfterDraw,
                     reshuffled |-> needed]

drawFromPile(state, playerId, random, t) ==
    LET needed == Len(state.drawPile) = 0
        replenished == IF needed THEN replenishDrawPile(state, random)
                       ELSE [state |-> state, result |-> ok]
    IN  IF ~replenished.result.ok
        THEN drawFailure(replenished.state, replenished.result, FALSE)
        ELSE
        LET s1 == replenished.state
            drawn == drawTopCard(s1.drawPile)
            s2 == [s1 EXCEPT !.drawPile = drawn.items]
        IN  IF drawn.card = None
            THEN drawFailure(s2, err("DRAW_PILE_EMPTY"), needed)
            ELSE
            LET card == drawn.card[1]
                playerIndex == findPlayerIndex(s2, playerId)
            IN  IF playerIndex = -1
                THEN drawFailure(s2, err("PLAYER_ALREADY_JOINED"), needed)
                ELSE
                LET s3 == [s2 EXCEPT
                             !.players[playerIndex + 1].hand = Append(@, card),
                             !.turn = Some([@[1] EXCEPT !.hasDrawnCard = TRUE])]
                    playableAfterDraw ==
                        isCardPlayable(card, s3.currentColor, s3.currentValue)
                IN  [state |-> refreshTimestamp(s3, t), result |-> ok,
                     card |-> Some(card), isPlayable |-> playableAfterDraw,
                     reshuffled |-> needed]

drawCard_NoPlayableCheck(state, playerId, random, t) ==
    IF state.phase # "in-progress"
    THEN drawFailure(state, err("GAME_NOT_READY"), FALSE)
    ELSE
    LET turnCheck == ensureActivePlayer(state, playerId)
    IN  IF ~turnCheck.ok THEN drawFailure(state, turnCheck, FALSE)
        ELSE IF state.turn = None
        THEN drawFailure(state, err("GAME_NOT_READY"), FALSE)
        ELSE IF state.turn[1].hasDrawnCard
        THEN drawFailure(state, err("ALREADY_DREW_CARD"), FALSE)
        ELSE drawFromPile(state, playerId, random, t)

drawCard_PlayableCheckFirst(state, playerId, random, t) ==
    IF state.phase # "in-progress"
    THEN drawFailure(state, err("GAME_NOT_READY"), FALSE)
    ELSE
    LET turnCheck == ensureActivePlayer(state, playerId)
    IN  IF ~turnCheck.ok THEN drawFailure(state, turnCheck, FALSE)
        ELSE IF state.turn = None
        THEN drawFailure(state, err("GAME_NOT_READY"), FALSE)
        ELSE
        LET playableBefore == listPlayableCards(state, playerId)
        IN  IF playableBefore.result.ok /\ Len(playableBefore.value) > 0
            THEN drawFailure(state, err("MUST_DRAW_FIRST"), FALSE)
            ELSE IF state.turn[1].hasDrawnCard
            THEN drawFailure(state, err("ALREADY_DREW_CARD"), FALSE)
            ELSE drawFromPile(state, playerId, random, t)

drawCard(state, playerId, random, t) ==
    IF state.phase # "in-progress"
    THEN drawFailure(state, err("GAME_NOT_READY"), FALSE)
    ELSE
    LET turnCheck == ensureActivePlayer(state, playerId)
    IN  IF ~turnCheck.ok THEN drawFailure(state, turnCheck, FALSE)
        ELSE IF state.turn = None
        THEN drawFailure(state, err("GAME_NOT_READY"), FALSE)
        ELSE IF state.turn[1].hasDrawnCard
        THEN drawFailure(state, err("ALREADY_DREW_CARD"), FALSE)
        ELSE
        LET playableBefore == listPlayableCards(state, playerId)
        IN  IF playableBefore.result.ok /\ Len(playableBefore.value) > 0
            THEN drawFailure(state, err("MUST_DRAW_FIRST"), FALSE)
            ELSE drawFromPile(state, playerId, random, t)

passTurn_FlagBeforeTurn(state, playerId, t) ==
    IF state.phase # "in-progress"
    THEN [state |-> state, result |-> err("GAME_NOT_READY")]
    ELSE IF state.turn = None \/ ~state.turn[1].hasDrawnCard
    THEN [state |-> state, result |-> err("MUST_DRAW_FIRST")]
    ELSE
    LET turnCheck == ensureActivePlayer(state, playerId)
    IN  IF ~turnCheck.ok THEN [state |-> state, result |-> turnCheck]
        ELSE [state |-> refreshTimestamp(advanceTurn(state), t), result |-> ok]

passTurn_StampsBeforeCheck(state, playerId, t) ==
    IF state.phase # "in-progress"
    THEN [state |-> state, result |-> err("GAME_NOT_READY")]
    ELSE
    LET turnCheck == ensureActivePlayer(state, playerId)
    IN  IF ~turnCheck.ok THEN [state |-> state, result |-> turnCheck]
        ELSE IF state.turn = None \/ ~state.turn[1].hasDrawnCard
        THEN [state |-> refreshTimestamp(state, t), result |-> err("MUST_DRAW_FIRST")]
        ELSE [state |-> refreshTimestamp(advanceTurn(state), t), result |-> ok]

passTurn(state, playerId, t) ==
    IF state.phase # "in-progress"
    THEN [state |-> state, result |-> err("GAME_NOT_READY")]
    ELSE
    LET turnCheck == ensureActivePlayer(state, playerId)
    IN  IF ~turnCheck.ok THEN [state |-> state, result |-> turnCheck]
        ELSE IF state.turn = None \/ ~state.turn[1].hasDrawnCard
        THEN [state |-> state, result |-> err("MUST_DRAW_FIRST")]
        ELSE [state |-> refreshTimestamp(advanceTurn(state), t), result |-> ok]

----------------------------------------------------------------------------
(* game.ts: getPublicState, getPlayerHand *)

getPublicState_ShowsHands(state) ==
    [ roomId |-> state.roomId,
      phase |-> state.phase,
      currentColor |-> state.currentColor,
      currentValue |-> state.currentValue,
      activePlayerId |-> IF state.turn = None THEN None
                         ELSE Some(state.turn[1].activePlayerId),
      players |-> [i \in 1..Len(state.players) |->
                      [id |-> state.players[i].id,
                       cardsCount |-> Len(state.players[i].hand),
                       hand |-> state.players[i].hand]],
      topDiscard |-> IF Len(state.discardPile) = 0 THEN None
                     ELSE Some(state.discardPile[Len(state.discardPile)]),
      winnerId |-> state.winnerId ]

getPublicState(state) ==
    [ roomId |-> state.roomId,
      phase |-> state.phase,
      currentColor |-> state.currentColor,
      currentValue |-> state.currentValue,
      activePlayerId |-> IF state.turn = None THEN None
                         ELSE Some(state.turn[1].activePlayerId),
      players |-> [i \in 1..Len(state.players) |->
                      [id |-> state.players[i].id,
                       cardsCount |-> Len(state.players[i].hand)]],
      topDiscard |-> IF Len(state.discardPile) = 0 THEN None
                     ELSE Some(state.discardPile[Len(state.discardPile)]),
      winnerId |-> state.winnerId ]

getPlayerHand(state, playerId) ==
    LET playerIndex == findPlayerIndex(state, playerId)
    IN  IF playerIndex = -1
        THEN [result |-> err("PLAYER_ALREADY_JOINED"), value |-> <<>>]
        ELSE [result |-> ok, value |-> state.players[playerIndex + 1].hand]

----------------------------------------------------------------------------
(* The state machine *)

\* state: the GameState value held by the caller
\* result: the operation called last and the Result it returned
\* moves: number of successful play / draw / pass calls so far; a run is
\*   explored up to MaxMoves of them.  In SpecBot: number of handler calls
\*   that changed the rooms, explored up to MaxBotSteps
\* reshuffles: number of draw-pile replenishments so far
\* rooms, playerToRoom: the two maps of the bot's RoomManager
\* pending: the /join handlers of the bot that are suspended at the reply
\*   they await between joinRoom and startRoom
\* outcome: the call a bot handler made last and what it threw
\* created: number of rooms created so far
VARIABLES state, result, moves, reshuffles,
          rooms, playerToRoom, pending, outcome, created

engineVars == <<state, result, moves, reshuffles>>

botVars == <<rooms, playerToRoom, pending, outcome, created>>

vars == <<state, result, moves, reshuffles,
          rooms, playerToRoom, pending, outcome, created>>

\* new RoomManager(): both maps empty, no handler running
NoRooms ==
    /\ rooms = <<>>
    /\ playerToRoom = <<>>
    /\ pending = <<>>
    /\ outcome = [op |-> "new", code |-> "OK"]
    /\ created = 0

\* card ids a caller may name: every id of the deck and one that no card has
CardIds == {createDeck[i].id : i \in 1..Len(createDeck)} \cup {"card-none"}

called(op, r) == [op |-> op, ok |-> r.ok, code |-> r.code]

Init ==
    /\ state = createGame(RoomId, HostId, 0, 0)
    /\ result = called("createGame", ok)
    /\ moves = 0
    /\ reshuffles = 0
    /\ NoRooms

JoinGame ==
    \E playerId \in PlayerIds, t \in Times :
        LET r == joinGame(state, playerId, t)
        IN  /\ state' = r.state
            /\ result' = called("joinGame", r.result)
            /\ UNCHANGED <<moves, reshuffles>>
            /\ UNCHANGED botVars

StartGame ==
    \E random \in RandomFns, t \in Times :
        LET r == startGame(state, random, t)
        IN  /\ state' = r.state
            /\ result' = called("startGame", r.result)
            /\ UNCHANGED <<moves, reshuffles>>
            /\ UNCHANGED botVars

PlayCard ==
    \E playerId \in PlayerIds, id \in CardIds, t \in Times :
        LET r == playCard(state, playerId, id, t)
        IN  /\ r.result.ok => moves < MaxMoves
            /\ state' = r.state
            /\ result' = called("playCard", r.result)
            /\ moves' = IF r.result.ok THEN moves + 1 ELSE moves
            /\ UNCHANGED reshuffles
            /\ UNCHANGED botVars

DrawCard ==
    \E playerId \in PlayerIds, random \in RandomFns, t \in Times :
        LET r == drawCard(state, playerId, random, t)
        IN  /\ r.result.ok => moves < MaxMoves
            /\ state' = r.state
            /\ result' = called("drawCard", r.result)
            /\ moves' = IF r.result.ok THEN moves + 1 ELSE moves
            /\ reshuffles' = IF r.reshuffled THEN reshuffles + 1 ELSE reshuffles
            /\ UNCHANGED botVars

PassTurn ==
    \E playerId \in PlayerIds, t \in Times :
        LET r == passTurn(state, playerId, t)
        IN  /\ r.result.ok => moves < MaxMoves
            /\ state' = r.state
            /\ result' = called("passTurn", r.result)
            /\ moves' = IF r.result.ok THEN moves + 1 ELSE moves
            /\ UNCHANGED reshuffles
            /\ UNCHANGED botVars

Next ==
    \/ JoinGame
    \/ StartGame
    \/ PlayCard
    \/ DrawCard
    \/ PassTurn

Spec == Init /\ [][Next]_vars

----------------------------------------------------------------------------
(* drawCard on a state handed over by the caller *)

\* The engine functions take any GameState.  The tests build a started game
\* directly (createStartedState) and overwrite its hands and piles before
\* calling drawCard; the states below are built the same way: a game in
\* progress between two players whose hands, draw pile and discard pile are
\* consecutive pieces of one ordering of the deck, current color / value
\* being those of the discard top (undefined when the discard pile is empty).

rotate(seq, k) == [i \in 1..Len(seq) |-> seq[((i - 1 + k) % Len(seq)) + 1]]

DeckOrders ==
    {rotate(shuffle(createDeck, random), k) :
        random \in RandomFns, k \in 0..(Len(createDeck) - 1)}

\* const baseTimestamp = 1_000
baseTimestamp == 1000

createStartedState(order, a, b, c, d, activePlayerId, hasDrawnCard) ==
    LET discardPile == SubSeq(order, a + b + c + 1, a + b + c + d)
    IN  [ roomId |-> RoomId,
          phase |-> "in-progress",
          players |-> << [id |-> "alice", hand |-> SubSeq(order, 1, a)],
                         [id |-> "bob", hand |-> SubSeq(order, a + 1, a + b)] >>,
          playerOrder |-> <<"alice", "bob">>,
          drawPile |-> SubSeq(order, a + b + 1, a + b + c),
          discardPile |-> discardPile,
          currentColor |-> IF d = 0 THEN None ELSE Some(discardPile[d].color),
          currentValue |-> IF d = 0 THEN None ELSE Some(discardPile[d].value),
          winnerId |-> None,
          turn |-> Some([activePlayerId |-> activePlayerId,
                         hasDrawnCard |-> hasDrawnCard]),
          createdAt |-> baseTimestamp,
          updatedAt |-> baseTimestamp ]

HandedStates ==
    {createStartedState(order, a, b, c, d, activePlayerId, hasDrawnCard) :
        order \in DeckOrders,
        a \in 1..CARDS_PER_PLAYER, b \in 1..CARDS_PER_PLAYER,
        c \in 0..1, d \in 0..3,
        activePlayerId \in {"alice", "bob"}, hasDrawnCard \in BOOLEAN}

InitHanded ==
    /\ state \in HandedStates
    /\ result = called("createStartedState", ok)
    /\ moves = 0
    /\ reshuffles = 0
    /\ NoRooms

NextHanded == DrawCard

SpecHanded == InitHanded /\ [][NextHanded]_vars

----------------------------------------------------------------------------
(* apps/bot: RoomManager (rooms.ts) and the /create, /join, /leave, /hand   *)
(* and /state handlers and the callback queries (index.ts, in the version   *)
(* whose /join reads ctx.match as a string or as a match array).            *)
(* A RoomManager value is the record of                                     *)
(* its two maps; a method is an operator that returns the maps as the call  *)
(* leaves them, the code of the BotError it threw (None when it returned)   *)
(* and the room it returned.  A RoomPlayer is modelled by its id; the chat  *)
(* fields play no part in the bookkeeping.  room.players is the sequence of *)
(* the ids in insertion order.  ref stands for the identity of a RoomData   *)
(* object: the number of rooms created before it.                           *)

\* a text is the sequence of its characters
ROOM_CODE_LENGTH == 5

\* ROOM_CODE_LENGTH times the symbol: what generateRoomId returns when
\* Math.random keeps returning the same number
generateRoomId(symbol) == [i \in 1..ROOM_CODE_LENGTH |-> symbol]

\* the codes generateRoomId can return, out of the 32^5 of the program: one
\* for each player, so that the loop of createRoom finds a free code
\* whenever a player is in no room (every room has a host of its own in
\* playerToRoom)
RoomCodes == {generateRoomId("A"), generateRoomId("B"), generateRoomId("C")}

LOWER == <<"a", "b", "c">>

UPPER == <<"A", "B", "C">>

\* String.prototype.toUpperCase on the letters of LOWER
toUpperCase(text) ==
    [i \in 1..Len(text) |->
        IF \E k \in 1..Len(LOWER) : LOWER[k] = text[i]
        THEN UPPER[CHOOSE k \in 1..Len(LOWER) : LOWER[k] = text[i]]
        ELSE text[i]]

\* String.prototype.trim: the text without its leading and trailing blanks
RECURSIVE trim(_)
trim(text) ==
    IF text = <<>> THEN text
    ELSE IF Head(text) = " " THEN trim(Tail(text))
    ELSE IF text[Len(text)] = " " THEN trim(SubSeq(text, 1, Len(text) - 1))
    ELSE text

\* ctx.match of a command: the text after the command, a match array, or
\* undefined
Str(text) == [kind |-> "string", text |-> text]

Arr(items) == [kind |-> "array", items |-> items]

Undefined == [kind |-> "undefined"]

\* the values of ctx.match a /join is sent with: a code, a code in lower
\* case between blanks, the code of no room, blanks only, match arrays with
\* and without a group, nothing
JoinMatches ==
    { Str(generateRoomId("A")), Str(<<" ">> \o generateRoomId("b") \o <<" ">>),
      Str(generateRoomId("D")), Str(<<" ", " ">>), Arr(<<generateRoomId("C")>>),
      Arr(<<generateRoomId("D"), generateRoomId("A")>>), Undefined }

\* lines 167-170 of the /join handler: the room code named by ctx.match,
\* None when the handler finds none
roomCodeOf(match) ==
    LET rawCode ==
            IF match.kind = "string" THEN Some(match.text)
            ELSE IF match.kind = "array"
            THEN (IF Len(match.items) >= 2 THEN Some(match.items[2])
                  ELSE IF Len(match.items) >= 1 THEN Some(match.items[1])
                  ELSE None)
            ELSE None
    IN  IF rawCode = None THEN None
        ELSE LET roomCode == toUpperCase(trim(rawCode[1]))
             IN  IF roomCode = <<>> THEN None ELSE Some(roomCode)

\* the values Date.now() and the sources Math.random are to the bot: its
\* bookkeeping reads neither a timestamp nor a card
BotTimes == {0}

BotRandomFns == {<<0>>}

Put(map, key, value) ==
    [k \in DOMAIN map \cup {key} |-> IF k = key THEN value ELSE map[k]]

Remove(map, key) == [k \in DOMAIN map \ {key} |-> map[k]]

\* room.players.has(id)
has(players, id) == \E i \in 1..Len(players) : players[i] = id

manager == [rooms |-> rooms, playerToRoom |-> playerToRoom]

\* unwrap(result): the code of the BotError thrown, None when it returns
unwrap(r) == IF ~r.ok THEN Some(r.code) ELSE None

returned(mgr, room) == [mgr |-> mgr, thrown |-> None, room |-> room]

threw(mgr, code) == [mgr |-> mgr, thrown |-> Some(code), room |-> None]

\* roomId is the code generateRoomId returns when its loop ends: one that
\* is no key of rooms; t is Date.now() inside createGame
createRoom(mgr, player, roomId, ref, t) ==
    IF player \in DOMAIN mgr.playerToRoom
    THEN threw(mgr, "ALREADY_IN_ROOM")
    ELSE
    LET game == createGame(roomId, player, t, t)
        room == [id |-> roomId, hostId |-> player, game |-> game,
                 players |-> <<player>>, ref |-> ref]
    IN  returned([rooms |-> Put(mgr.rooms, roomId, room),
                  playerToRoom |-> Put(mgr.playerToRoom, player, roomId)],
                 Some(room))

joinRoom_MapsBeforeJoin(mgr, roomId, player, t) ==
    IF player \in DOMAIN mgr.playerToRoom
    THEN threw(mgr, "ALREADY_IN_ROOM")
    ELSE IF roomId \notin DOMAIN mgr.rooms
    THEN threw(mgr, "ROOM_NOT_FOUND")
    ELSE
    LET room == mgr.rooms[roomId]
        joined == joinGame(room.game, player, t)
        thrown == unwrap(joined.result)
        mapped == [mgr EXCEPT !.playerToRoom = Put(@, player, roomId)]
    IN  IF thrown # None
        THEN threw([mapped EXCEPT !.rooms[roomId].game = joined.state], thrown[1])
        ELSE
        LET room2 == [room EXCEPT !.game = joined.state,
                                  !.players = IF has(@, player) THEN @
                                              ELSE Append(@, player)]
        IN  returned([mapped EXCEPT !.rooms = Put(@, roomId, room2)], Some(room2))

joinRoom(mgr, roomId, player, t) ==
    IF player \in DOMAIN mgr.playerToRoom
    THEN threw(mgr, "ALREADY_IN_ROOM")
    ELSE IF roomId \notin DOMAIN mgr.rooms
    THEN threw(mgr, "ROOM_NOT_FOUND")
    ELSE
    LET room == mgr.rooms[roomId]
        joined == joinGame(room.game, player, t)
        thrown == unwrap(joined.result)
    IN  IF thrown # None
        THEN threw([mgr EXCEPT !.rooms[roomId].game = joined.state], thrown[1])
        ELSE
        LET room2 == [room EXCEPT !.game = joined.state,
                                  !.players = IF has(@, player) THEN @
                                              ELSE Append(@, player)]
        IN  returned([rooms |-> Put(mgr.rooms, roomId, room2),
                      playerToRoom |-> Put(mgr.playerToRoom, player, roomId)],
                     Some(room2))

\* random and t are Math.random and Date.now() inside startGame
startRoom(mgr, roomId, random, t) ==
    IF roomId \notin DOMAIN mgr.rooms
    THEN threw(mgr, "ROOM_NOT_FOUND")
    ELSE
    LET room == mgr.rooms[roomId]
        started == startGame(room.game, random, t)
        thrown == unwrap(started.result)
        mgr2 == [mgr EXCEPT !.rooms[roomId].game = started.state]
    IN  IF thrown # None
        THEN threw(mgr2, thrown[1])
        ELSE returned(mgr2, Some(mgr2.rooms[roomId]))

\* room is None when the method returns undefined
getRoomByPlayer(mgr, playerId) ==
    IF playerId \notin DOMAIN mgr.playerToRoom
    THEN returned(mgr, None)
    ELSE
    LET roomId == mgr.playerToRoom[playerId]
        forgotten == [mgr EXCEPT !.playerToRoom = Remove(@, playerId)]
    IN  IF roomId \notin DOMAIN mgr.rooms
        THEN returned(forgotten, None)
        ELSE IF ~has(mgr.rooms[roomId].players, playerId)
        THEN returned(forgotten, None)
        ELSE returned(mgr, Some(mgr.rooms[roomId]))

\* room is None when the method returns undefined; otherwise it is the room
\* left, whose players are the remaining ones
leaveRoom(mgr, playerId) ==
    LET mapping == getRoomByPlayer(mgr, playerId)
    IN  IF mapping.room = None
        THEN mapping
        ELSE
        LET room == mapping.room[1]
            remaining == SelectSeq(room.players, LAMBDA p : p # playerId)
            left == [room EXCEPT !.players = remaining]
        IN  returned([rooms |-> Remove(mapping.mgr.rooms, room.id),
                      playerToRoom |-> Remove(mapping.mgr.playerToRoom, playerId)],
                     Some(left))

\* what a handler learns from a call: the method and the error code, OK when
\* it returned a room, NONE when it returned undefined
told(op, r) ==
    [op |-> op,
     code |-> IF r.thrown # None THEN r.thrown[1]
              ELSE IF r.room = None THEN "NONE" ELSE "OK"]

\* handlePlay, handleDraw and handlePass up to their first await: the room
\* of the player, then the move on its game; t and random are Date.now() and
\* Math.random inside the engine
handlePlay(mgr, player, cid, t) ==
    LET mapping == getRoomByPlayer(mgr, player)
    IN  IF mapping.room = None
        THEN threw(mapping.mgr, "ROOM_NOT_FOUND")
        ELSE
        LET room == mapping.room[1]
            played == playCard(room.game, player, cid, t)
            thrown == unwrap(played.result)
            mgr2 == [mapping.mgr EXCEPT !.rooms[room.id].game = played.state]
        IN  IF thrown # None
            THEN threw(mgr2, thrown[1])
            ELSE returned(mgr2, Some(mgr2.rooms[room.id]))

handleDraw(mgr, player, random, t) ==
    LET mapping == getRoomByPlayer(mgr, player)
    IN  IF mapping.room = None
        THEN threw(mapping.mgr, "ROOM_NOT_FOUND")
        ELSE
        LET room == mapping.room[1]
            drawn == drawCard(room.game, player, random, t)
            thrown == unwrap(drawn.result)
            mgr2 == [mapping.mgr EXCEPT !.rooms[room.id].game = drawn.state]
        IN  IF thrown # None
            THEN threw(mgr2, thrown[1])
            ELSE returned(mgr2, Some(mgr2.rooms[room.id]))

handlePass(mgr, player, t) ==
    LET mapping == getRoomByPlayer(mgr, player)
    IN  IF mapping.room = None
        THEN threw(mapping.mgr, "ROOM_NOT_FOUND")
        ELSE
        LET room == mapping.room[1]
            passed == passTurn(room.game, player, t)
            thrown == unwrap(passed.result)
            mgr2 == [mapping.mgr EXCEPT !.rooms[room.id].game = passed.state]
        IN  IF thrown # None
            THEN threw(mgr2, thrown[1])
            ELSE returned(mgr2, Some(mgr2.rooms[room.id]))

\* updatePlayerChat(playerId, chatId): only its getRoomByPlayer touches the maps
updatePlayerChat(mgr, playerId) == getRoomByPlayer(mgr, playerId).mgr

\* the data of a callback query: play:<card id>, draw, pass, anything else
CallbackData ==
    {[verb |-> "play", cardId |-> id] : id \in CardIds}
        \cup {[verb |-> v, cardId |-> "card-none"] : v \in {"draw", "pass", "other"}}

\* moves counts the handler calls of the run that changed the rooms or ended
\* a suspended handler; a run is explored up to MaxBotSteps of them
counted(changed) ==
    /\ changed => moves < MaxBotSteps
    /\ moves' = IF changed THEN moves + 1 ELSE moves

\* bot.command('create'): createRoom, then the reply.  roomId is the code
\* the loop around generateRoomId ends with; it is drawn only when the
\* player is in no room
Create ==
    \E player \in PlayerIds, roomId \in RoomCodes, t \in BotTimes :
        LET r == createRoom(manager, player, roomId, created, t)
        IN  /\ player \notin DOMAIN playerToRoom => roomId \notin DOMAIN rooms
            /\ counted(r.mgr # manager)
            /\ rooms' = r.mgr.rooms
            /\ playerToRoom' = r.mgr.playerToRoom
            /\ outcome' = told("createRoom", r)
            /\ created' = IF r.thrown = None THEN created + 1 ELSE created
            /\ UNCHANGED pending
            /\ UNCHANGED <<state, result, reshuffles>>

\* bot.command('join') up to the reply it awaits after joinRoom; without a
\* room code it only replies, and a throw ends the handler in its catch
JoinBegin ==
    \E player \in PlayerIds, match \in JoinMatches, t \in BotTimes :
        LET roomCode == roomCodeOf(match)
        IN  IF roomCode = None
            THEN UNCHANGED vars
            ELSE
            LET r == joinRoom(manager, roomCode[1], player, t)
            IN  /\ counted(r.mgr # manager)
                /\ rooms' = r.mgr.rooms
                /\ playerToRoom' = r.mgr.playerToRoom
                /\ outcome' = told("joinRoom", r)
                /\ pending' = IF r.thrown # None THEN pending
                              ELSE Append(pending, [player |-> player,
                                                    roomCode |-> roomCode[1],
                                                    room |-> r.room[1].ref,
                                                    hostId |-> r.room[1].hostId])
                /\ UNCHANGED created
                /\ UNCHANGED <<state, result, reshuffles>>

\* bot.command('join') from the reply on: startRoom, then messages only
JoinResume ==
    \E k \in 1..Len(pending), random \in BotRandomFns, t \in BotTimes :
        LET r == startRoom(manager, pending[k].roomCode, random, t)
        IN  /\ counted(TRUE)
            /\ rooms' = r.mgr.rooms
            /\ playerToRoom' = r.mgr.playerToRoom
            /\ outcome' = told("startRoom", r)
            /\ pending' = SubSeq(pending, 1, k - 1) \o SubSeq(pending, k + 1, Len(pending))
            /\ UNCHANGED created
            /\ UNCHANGED <<state, result, reshuffles>>

\* bot.command('leave'): leaveRoom, then messages only
Leave ==
    \E player \in PlayerIds :
        LET r == leaveRoom(manager, player)
        IN  /\ counted(r.mgr # manager)
            /\ rooms' = r.mgr.rooms
            /\ playerToRoom' = r.mgr.playerToRoom
            /\ outcome' = told("leaveRoom", r)
            /\ UNCHANGED <<pending, created>>
            /\ UNCHANGED <<state, result, reshuffles>>

\* bot.command('hand') and bot.command('state'): getRoomByPlayer, then
\* messages only
Lookup ==
    \E player \in PlayerIds :
        LET r == getRoomByPlayer(manager, player)
        IN  /\ counted(r.mgr # manager)
            /\ rooms' = r.mgr.rooms
            /\ playerToRoom' = r.mgr.playerToRoom
            /\ outcome' = told("getRoomByPlayer", r)
            /\ UNCHANGED <<pending, created>>
            /\ UNCHANGED <<state, result, reshuffles>>

\* bot.on('callback_query:data'): updatePlayerChat when the query has a
\* chat, then the move the data names, then messages only; the answer to a
\* refused move is the message of the error, whatever the move
Callback ==
    \E player \in PlayerIds, data \in CallbackData, hasChat \in BOOLEAN,
       random \in BotRandomFns, t \in BotTimes :
        LET mgr == IF hasChat THEN updatePlayerChat(manager, player) ELSE manager
            r == CASE data.verb = "play" -> handlePlay(mgr, player, data.cardId, t)
                   [] data.verb = "draw" -> handleDraw(mgr, player, random, t)
                   [] data.verb = "pass" -> handlePass(mgr, player, t)
                   [] OTHER -> returned(mgr, None)
            op == CASE r.thrown # None -> "callback"
                    [] data.verb = "play" -> "playCard"
                    [] data.verb = "draw" -> "drawCard"
                    [] data.verb = "pass" -> "passTurn"
                    [] OTHER -> "callback"
        IN  /\ counted(r.mgr # manager)
            /\ rooms' = r.mgr.rooms
            /\ playerToRoom' = r.mgr.playerToRoom
            /\ outcome' = told(op, r)
            /\ UNCHANGED <<pending, created>>
            /\ UNCHANGED <<state, result, reshuffles>>

NextBot ==
    \/ Create
    \/ JoinBegin
    \/ JoinResume
    \/ Leave
    \/ Lookup
    \/ Callback

SpecBot == Init /\ [][NextBot]_vars

----------------------------------------------------------------------------
(* Vocabulary of the properties *)

Started == state.phase \in {"in-progress", "finished"}

RECURSIVE concatHands(_, _)
concatHands(players, k) ==
    IF k > Len(players) THEN <<>>
    ELSE players[k].hand \o concatHands(players, k + 1)

\* every card the game holds: all hands, then the draw pile, then the discard pile
AllCards == concatHands(state.players, 1) \o state.drawPile \o state.discardPile

SeqRange(seq) == {seq[i] : i \in 1..Len(seq)}

\* 1 + 2 * 9 cards for each of 4 colors in the program: 76
DeckComposition == Len(UNO_COLORS) * (1 + 2 * (Len(UNO_VALUES) - 1))

PhaseRank(phase) ==
    CASE phase = "waiting-for-player" -> 0
      [] phase = "ready-to-start" -> 1
      [] phase = "in-progress" -> 2
      [] phase = "finished" -> 3

SeatedIds == {state.players[i].id : i \in 1..Len(state.players)}

ActivePlayer == state.turn[1].activePlayerId

HandOf(playerId) == state.players[findPlayerIndex(state, playerId) + 1].hand

\* the legality rule in the words of the rules: same color or same value as
\* the current color / value
Matches(card) ==
    \/ state.currentColor = <<card.color>>
    \/ state.currentValue = <<card.value>>

----------------------------------------------------------------------------
(* Properties *)

\* C1: once the game has been started, the hands, the draw pile and the
\* discard pile together hold exactly the cards of the deck: the total count
\* is the deck's (76 for 4 colors and values 0..9), every deck card is there
\* and no card id occurs twice.
C1_CardsConserved ==
    Started =>
        /\ Len(AllCards) = DeckComposition
        /\ Len(AllCards) = Len(createDeck)
        /\ SeqRange(AllCards) = SeqRange(createDeck)
        /\ Cardinality({AllCards[i].id : i \in 1..Len(AllCards)}) = Len(AllCards)

\* a draw has just replenished the draw pile from the discard pile
C1_Witness ==
    /\ reshuffles >= 1
    /\ result = called("drawCard", ok)
    /\ Len(state.discardPile) = 1
    /\ state.turn # None /\ state.turn[1].hasDrawnCard

\* C2: currentColor and currentValue are defined exactly in the phases
\* in-progress and finished, and then equal the color and value of the last
\* card of the discard pile.
C2_CurrentMirrorsTop ==
    /\ (state.currentColor # None) <=> Started
    /\ (state.currentValue # None) <=> Started
    /\ Started =>
          /\ Len(state.discardPile) >= 1
          /\ state.currentColor = Some(state.discardPile[Len(state.discardPile)].color)
          /\ state.currentValue = Some(state.discardPile[Len(state.discardPile)].value)

\* a card has been played on top of a pile that was reshuffled before
C2_Witness ==
    /\ reshuffles >= 1
    /\ result = called("playCard", ok)
    /\ Len(state.discardPile) >= 2

\* C3: no operation moves the phase to an earlier one in the order
\* waiting-for-player, ready-to-start, in-progress, finished.
C3_PhaseForward ==
    [][PhaseRank(state.phase) <= PhaseRank(state'.phase)]_vars

\* the last phase has been reached and a start was attempted in it
C3_Witness ==
    /\ state.phase = "finished"
    /\ result = called("startGame", err("GAME_ALREADY_STARTED"))

\* C4: from a finished game every call fails, join and start with
\* GAME_ALREADY_STARTED, play, draw and pass with GAME_NOT_READY, and the
\* game state stays as it is.
C4_FinishedIsTerminal ==
    [][state.phase = "finished" =>
          /\ state' = state
          /\ ~result'.ok
          /\ result'.op \in {"joinGame", "startGame"}
                => result'.code = "GAME_ALREADY_STARTED"
          /\ result'.op \in {"playCard", "drawCard", "passTurn"}
                => result'.code = "GAME_NOT_READY"]_vars

\* a pass was attempted on a finished game
C4_Witness ==
    /\ state.phase = "finished"
    /\ result = called("passTurn", err("GAME_NOT_READY"))

\* C5: a call that returns a failure leaves every field of the game state,
\* the update timestamp included, as it was.
C5_FailureChangesNothing ==
    [][~result'.ok => state' = state]_vars

\* a draw was refused in a running game
C5_Witness ==
    /\ state.phase = "in-progress"
    /\ result = called("drawCard", err("MUST_DRAW_FIRST"))

\* C6: the turn state is defined exactly in phase in-progress, and its
\* active player is seated.
C6_TurnIffInProgress ==
    /\ (state.turn # None) <=> state.phase = "in-progress"
    /\ state.turn # None => ActivePlayer \in SeatedIds

\* the turn has passed to the second player
C6_Witness ==
    /\ state.phase = "in-progress"
    /\ result = called("passTurn", ok)
    /\ ActivePlayer = state.playerOrder[2]

\* C7: winnerId is defined exactly in phase finished; the winner is seated
\* with an empty hand and every other player holds at least one card.
C7_WinnerIffFinished ==
    /\ (state.winnerId # None) <=> state.phase = "finished"
    /\ state.winnerId # None =>
          \E i \in 1..Len(state.players) :
              /\ state.players[i].id = state.winnerId[1]
              /\ Len(state.players[i].hand) = 0
              /\ \A j \in 1..Len(state.players) :
                    j # i => Len(state.players[j].hand) > 0

\* the second player has won
C7_Witness ==
    /\ state.phase = "finished"
    /\ state.winnerId = Some(state.playerOrder[2])
    /\ result = called("playCard", ok)

\* C8: once the game has been started the discard pile is never empty.
C8_DiscardNeverEmpty ==
    Started => Len(state.discardPile) >= 1

\* the turn was passed after a draw that reshuffled the discard pile
C8_Witness ==
    /\ reshuffles >= 1
    /\ result = called("passTurn", ok)
    /\ Len(state.discardPile) = 1

\* C9: at most two players, no id seated twice, and playerOrder lists the
\* seated ids in seating order.
C9_SeatsAndOrder ==
    /\ Len(state.players) <= 2
    /\ \A i, j \in 1..Len(state.players) :
          state.players[i].id = state.players[j].id => i = j
    /\ state.playerOrder = [i \in 1..Len(state.players) |-> state.players[i].id]

\* a third player was turned away from a full room
C9_Witness ==
    /\ Len(state.players) = 2
    /\ result = called("joinGame", err("ROOM_FULL"))

\* C10: for the active player of a running game and any card id, playCard
\* succeeds exactly when the id names a card of the hand that has the current
\* color or the current value, which is exactly when the card is in the list
\* of listPlayableCards; that list is the matching cards in hand order.
C10_PlayableIffMatches ==
    state.phase = "in-progress" =>
        LET hand == HandOf(ActivePlayer)
            listed == listPlayableCards(state, ActivePlayer)
        IN  /\ listed.result.ok
            /\ listed.value = SelectSeq(hand, Matches)
            /\ \A id \in CardIds, t \in Times :
                  LET played == playCard(state, ActivePlayer, id, t).result.ok
                  IN  /\ played <=> \E k \in 1..Len(hand) :
                                        hand[k].id = id /\ Matches(hand[k])
                      /\ played <=> \E k \in 1..Len(listed.value) :
                                        listed.value[k].id = id

\* a card matching the previous top card by value only has just been played,
\* and the player now to move holds both a legal and an illegal card
C10_Witness ==
    /\ state.phase = "in-progress"
    /\ result = called("playCard", ok)
    /\ Len(state.discardPile) >= 2
    /\ LET top == state.discardPile[Len(state.discardPile)]
           below == state.discardPile[Len(state.discardPile) - 1]
       IN  top.color # below.color /\ top.value = below.value
    /\ \E k \in 1..Len(HandOf(ActivePlayer)) : Matches(HandOf(ActivePlayer)[k])
    /\ \E k \in 1..Len(HandOf(ActivePlayer)) : ~Matches(HandOf(ActivePlayer)[k])

\* the hand of the player who is not active (the opponent of the player to move)
OpponentHands(s, playerId) ==
    [i \in {j \in 1..Len(s.players) : s.players[j].id # playerId} |-> s.players[i].hand]

\* the cards of hand whose id is id
Holds(hand, id) == \E k \in 1..Len(hand) : hand[k].id = id

\* C11: playCard reports the first violated precondition in the order: phase
\* not in-progress (GAME_NOT_READY), caller not the active player
\* (NOT_PLAYER_TURN), card id not in the caller's hand (CARD_NOT_FOUND), card
\* matching neither current color nor current value (CARD_NOT_PLAYABLE); so a
\* non-active player always gets NOT_PLAYER_TURN whatever card is named and
\* an id that is not in the hand never gives CARD_NOT_PLAYABLE.
C11_PlayErrorOrder ==
    \A playerId \in PlayerIds, id \in CardIds :
        LET code == playCard(state, playerId, id, 0).result.code
        IN  /\ code =
                 IF state.phase # "in-progress" THEN "GAME_NOT_READY"
                 ELSE IF playerId # ActivePlayer THEN "NOT_PLAYER_TURN"
                 ELSE IF ~Holds(HandOf(playerId), id) THEN "CARD_NOT_FOUND"
                 ELSE IF \A k \in 1..Len(HandOf(playerId)) :
                            HandOf(playerId)[k].id = id => ~Matches(HandOf(playerId)[k])
                      THEN "CARD_NOT_PLAYABLE"
                 ELSE "OK"
            /\ code = "CARD_NOT_PLAYABLE" =>
                 playerId \in SeatedIds /\ Holds(HandOf(playerId), id)

\* the player who is not to move named a card and was refused, while holding
\* cards of their own
C11_Witness ==
    /\ state.phase = "in-progress"
    /\ result = called("playCard", err("NOT_PLAYER_TURN"))
    /\ \E i \in 1..Len(state.players) :
          state.players[i].id # ActivePlayer /\ Len(state.players[i].hand) >= 1

\* C12: a successful playCard that leaves the hand non-empty removes exactly
\* the named card from the hand, appends it to the discard pile, sets current
\* color / value to the card's, leaves the draw pile and the opponent's hand
\* alone, keeps the phase in-progress and makes the other player active with
\* hasDrawnCard false.
C12_PlayEffect ==
    state.phase = "in-progress" =>
        \A id \in CardIds, t \in Times :
            LET hand == HandOf(ActivePlayer)
                r == playCard(state, ActivePlayer, id, t)
                s == r.state
                k == CHOOSE k \in 1..Len(hand) : hand[k].id = id
            IN  (r.result.ok /\ Len(hand) > 1) =>
                    /\ s.players[findPlayerIndex(state, ActivePlayer) + 1].hand
                          = SubSeq(hand, 1, k - 1) \o SubSeq(hand, k + 1, Len(hand))
                    /\ s.discardPile = Append(state.discardPile, hand[k])
                    /\ s.currentColor = <<hand[k].color>>
                    /\ s.currentValue = <<hand[k].value>>
                    /\ s.drawPile = state.drawPile
                    /\ OpponentHands(s, ActivePlayer) = OpponentHands(state, ActivePlayer)
                    /\ s.phase = "in-progress"
                    /\ s.winnerId = None
                    /\ s.turn # None
                    /\ s.turn[1].activePlayerId \in SeatedIds \ {ActivePlayer}
                    /\ s.turn[1].hasDrawnCard = FALSE
                    /\ s.playerOrder = state.playerOrder

\* a card was played, the game goes on and the player who played still holds
\* cards
C12_Witness ==
    /\ state.phase = "in-progress"
    /\ result = called("playCard", ok)
    /\ state.turn[1].hasDrawnCard = FALSE
    /\ \A i \in 1..Len(state.players) : Len(state.players[i].hand) >= 1

\* C13: when the active player plays the last card of the hand, the phase
\* becomes finished, winnerId becomes that player and the turn is cleared
\* instead of moving to the opponent.
C13_LastCardWins ==
    state.phase = "in-progress" =>
        \A id \in CardIds, t \in Times :
            LET hand == HandOf(ActivePlayer)
                r == playCard(state, ActivePlayer, id, t)
            IN  (r.result.ok /\ Len(hand) = 1) =>
                    /\ r.state.phase = "finished"
                    /\ r.state.winnerId = <<ActivePlayer>>
                    /\ r.state.turn = None
                    /\ r.state.players[findPlayerIndex(state, ActivePlayer) + 1].hand = <<>>
                    /\ r.state.discardPile = Append(state.discardPile, hand[1])

\* the host has played the last card
C13_Witness ==
    /\ state.phase = "finished"
    /\ result = called("playCard", ok)
    /\ state.winnerId = <<state.playerOrder[1]>>
    /\ state.turn = None

HasLegalPlay(hand) == \E k \in 1..Len(hand) : Matches(hand[k])

\* C14: for the active player of a running game drawCard fails with
\* ALREADY_DREW_CARD when a card was drawn this turn (whatever the hand
\* holds), otherwise with MUST_DRAW_FIRST when the hand holds a legal play;
\* it succeeds only with no legal play and no draw this turn, and a second
\* draw in the same turn fails.
C14_DrawErrorOrder ==
    state.phase = "in-progress" =>
        \A random \in RandomFns :
            LET r == drawCard(state, ActivePlayer, random, 0)
                hasDrawn == state.turn[1].hasDrawnCard
                legal == HasLegalPlay(HandOf(ActivePlayer))
            IN  /\ hasDrawn => r.result = err("ALREADY_DREW_CARD")
                /\ (~hasDrawn /\ legal) => r.result = err("MUST_DRAW_FIRST")
                /\ r.result.ok => ~hasDrawn /\ ~legal
                /\ r.result.ok =>
                      \A again \in RandomFns :
                          drawCard(r.state, ActivePlayer, again, 0).result
                              = err("ALREADY_DREW_CARD")

\* a second draw was refused in a turn in which the drawn card is a legal play
C14_Witness ==
    /\ state.phase = "in-progress"
    /\ result = called("drawCard", err("ALREADY_DREW_CARD"))
    /\ state.turn[1].hasDrawnCard
    /\ HasLegalPlay(HandOf(ActivePlayer))

\* C15: a successful drawCard appends exactly one card to the end of the
\* active player's hand and sets hasDrawnCard; the active player, the phase,
\* the opponent's hand, the discard top and current color / value stay; the
\* returned card is the appended one and isPlayable tells whether it matches
\* the current color or value.
C15_DrawEffect ==
    state.phase = "in-progress" =>
        \A random \in RandomFns, t \in Times :
            LET r == drawCard(state, ActivePlayer, random, t)
                s == r.state
            IN  r.result.ok =>
                    /\ r.card # None
                    /\ s.players[findPlayerIndex(state, ActivePlayer) + 1].hand
                          = Append(HandOf(ActivePlayer), r.card[1])
                    /\ s.turn = <<[activePlayerId |-> ActivePlayer, hasDrawnCard |-> TRUE]>>
                    /\ s.phase = "in-progress"
                    /\ OpponentHands(s, ActivePlayer) = OpponentHands(state, ActivePlayer)
                    /\ s.discardPile # <<>>
                    /\ s.discardPile[Len(s.discardPile)]
                          = state.discardPile[Len(state.discardPile)]
                    /\ s.currentColor = state.currentColor
                    /\ s.currentValue = state.currentValue
                    /\ r.isPlayable <=> Matches(r.card[1])

\* a card that is a legal play has just been drawn
C15_Witness ==
    /\ state.phase = "in-progress"
    /\ result = called("drawCard", ok)
    /\ state.turn[1].hasDrawnCard
    /\ Matches(HandOf(ActivePlayer)[Len(HandOf(ActivePlayer))])

\* C16: for the active player of a running game passTurn fails with
\* MUST_DRAW_FIRST when no card was drawn this turn; after a successful draw
\* in the same turn it succeeds whatever was drawn, makes the other player
\* active with hasDrawnCard false and moves no card.
C16_PassAfterDraw ==
    state.phase = "in-progress" =>
        \A t \in Times :
            LET p == passTurn(state, ActivePlayer, t)
            IN  /\ ~state.turn[1].hasDrawnCard =>
                      p.result = err("MUST_DRAW_FIRST") /\ p.state = state
                /\ state.turn[1].hasDrawnCard =>
                      /\ p.result.ok
                      /\ p.state.turn # None
                      /\ p.state.turn[1].activePlayerId \in SeatedIds \ {ActivePlayer}
                      /\ p.state.turn[1].hasDrawnCard = FALSE
                      /\ p.state.players = state.players
                      /\ p.state.drawPile = state.drawPile
                      /\ p.state.discardPile = state.discardPile
                      /\ p.state.currentColor = state.currentColor
                      /\ p.state.currentValue = state.currentValue
                /\ \A random \in RandomFns :
                      LET d == drawCard(state, ActivePlayer, random, t)
                      IN  d.result.ok => passTurn(d.state, ActivePlayer, t).result.ok

\* the turn was passed by a player whose drawn card was a legal play
C16_Witness ==
    /\ state.phase = "in-progress"
    /\ result = called("passTurn", ok)
    /\ \E i \in 1..Len(state.players) :
          /\ state.players[i].id # ActivePlayer
          /\ state.players[i].hand # <<>>
          /\ Matches(state.players[i].hand[Len(state.players[i].hand)])

\* C17: joinGame reports the first violated precondition in the order
\* GAME_ALREADY_STARTED (phase in-progress or finished), PLAYER_ALREADY_JOINED
\* (id already seated), ROOM_FULL (two players seated); so on a full room
\* that has not started a seated player gets PLAYER_ALREADY_JOINED and a
\* third player ROOM_FULL.
C17_JoinErrorOrder ==
    \A playerId \in PlayerIds :
        joinGame(state, playerId, 0).result.code =
            IF state.phase \in {"in-progress", "finished"} THEN "GAME_ALREADY_STARTED"
            ELSE IF playerId \in SeatedIds THEN "PLAYER_ALREADY_JOINED"
            ELSE IF Len(state.players) >= 2 THEN "ROOM_FULL"
            ELSE "OK"

\* a seated player has called join again on a full room that has not started
C17_Witness ==
    /\ state.phase = "ready-to-start"
    /\ Len(state.players) = 2
    /\ result = called("joinGame", err("PLAYER_ALREADY_JOINED"))

\* C18: a created game is in phase waiting-for-player with only the host
\* seated and both piles empty; the first join by another id succeeds, seats
\* that player last with an empty hand, appends the id to playerOrder and
\* moves the phase to ready-to-start; the phase is ready-to-start exactly
\* when two players are seated and the game has not been started.
C18_CreateAndFirstJoin ==
    /\ (state.phase = "ready-to-start") <=> (Len(state.players) = 2 /\ ~Started)
    /\ \A hostId \in PlayerIds, t \in Times :
          LET g == createGame(RoomId, hostId, t, t)
          IN  /\ g.phase = "waiting-for-player"
              /\ g.players = << [id |-> hostId, hand |-> <<>>] >>
              /\ g.drawPile = <<>> /\ g.discardPile = <<>>
    /\ state.phase = "waiting-for-player" =>
          /\ state.players = << [id |-> HostId, hand |-> <<>>] >>
          /\ state.drawPile = <<>> /\ state.discardPile = <<>>
          /\ \A playerId \in PlayerIds \ {HostId}, t \in Times :
                LET j == joinGame(state, playerId, t)
                IN  /\ j.result.ok
                    /\ j.state.players =
                          Append(state.players, [id |-> playerId, hand |-> <<>>])
                    /\ j.state.playerOrder = Append(state.playerOrder, playerId)
                    /\ j.state.phase = "ready-to-start"

\* the first join by another id has just succeeded
C18_Witness ==
    /\ state.phase = "ready-to-start"
    /\ result = called("joinGame", ok)
    /\ Len(state.players) = 2
    /\ state.players[2].hand = <<>>
    /\ state.playerOrder = <<HostId, state.players[2].id>>

\* C19: startGame fails with NOT_ENOUGH_PLAYERS when fewer than two players
\* are seated, whatever the phase, and otherwise with GAME_ALREADY_STARTED
\* when the phase is in-progress or finished; a failed call changes nothing,
\* so after a successful start every further start fails and re-deals
\* nothing.
C19_StartErrorOrder ==
    \A random \in RandomFns, t \in Times :
        LET r == startGame(state, random, t)
        IN  /\ Len(state.players) < 2 => r.result = err("NOT_ENOUGH_PLAYERS")
            /\ (Len(state.players) >= 2 /\ Started) =>
                  r.result = err("GAME_ALREADY_STARTED") /\ r.state = state
            \* the same game with only its first seat, in each phase
            /\ \A phase \in {"waiting-for-player", "ready-to-start",
                             "in-progress", "finished"} :
                  LET alone == [state EXCEPT !.phase = phase,
                                             !.players = SubSeq(@, 1, 1)]
                  IN  startGame(alone, random, t) =
                          [state |-> alone, result |-> err("NOT_ENOUGH_PLAYERS")]
            /\ r.result.ok =>
                  \A again \in RandomFns :
                      startGame(r.state, again, t) =
                          [state |-> r.state, result |-> err("GAME_ALREADY_STARTED")]

\* a second start was refused while the game is running
C19_Witness ==
    /\ state.phase = "in-progress"
    /\ result = called("startGame", err("GAME_ALREADY_STARTED"))
    /\ \A i \in 1..Len(state.players) : Len(state.players[i].hand) >= 1

\* C20: for every random source a successful startGame on a ready-to-start
\* game leaves each of the two players with CARDS_PER_PLAYER cards, one card
\* on the discard pile, the rest of the deck (deck size minus the two hands
\* minus one) on the draw pile, the phase in-progress, no winner, and the
\* turn with the first player of the turn order, the host, and hasDrawnCard
\* false.  The full deck of 4 colors and values 0..9 has 76 cards, which
\* with hands of 7 leaves 61.
C20_StartDeals ==
    /\ Len(deckFrom(ALL_COLORS, ALL_VALUES, 1, 0)) = 76
    /\ 76 - 2 * 7 - 1 = 61
    /\ state.phase = "ready-to-start" =>
          \A random \in RandomFns, t \in Times :
              LET r == startGame(state, random, t)
                  s == r.state
              IN  r.result.ok =>
                      /\ Len(s.players) = 2
                      /\ \A i \in 1..2 : Len(s.players[i].hand) = CARDS_PER_PLAYER
                      /\ Len(s.discardPile) = 1
                      /\ Len(s.drawPile) = Len(createDeck) - 2 * CARDS_PER_PLAYER - 1
                      /\ s.phase = "in-progress"
                      /\ s.winnerId = None
                      /\ s.turn = <<[activePlayerId |-> state.playerOrder[1],
                                     hasDrawnCard |-> FALSE]>>
                      /\ state.playerOrder[1] = HostId

\* the game has just been started and nothing has been played or drawn yet
C20_Witness ==
    /\ result = called("startGame", ok)
    /\ state.phase = "in-progress"
    /\ ActivePlayer = HostId
    /\ Len(state.drawPile) = Len(createDeck) - 2 * CARDS_PER_PLAYER - 1
    /\ \A i \in 1..Len(state.players) : Len(state.players[i].hand) = CARDS_PER_PLAYER

\* the active player of a running game may draw (no legal play, no card
\* drawn this turn) and the draw pile is empty
DrawNeedsReshuffle ==
    /\ state.phase = "in-progress"
    /\ state.turn # None
    /\ ~state.turn[1].hasDrawnCard
    /\ ActivePlayer \in SeatedIds
    /\ ~HasLegalPlay(HandOf(ActivePlayer))
    /\ state.drawPile = <<>>

\* C21: when the active player may draw, the draw pile is empty and the
\* discard pile holds n >= 2 cards, drawCard succeeds; afterwards the discard
\* pile is exactly the former top card, the card drawn into the hand is one
\* of the n-1 other former discard cards and the draw pile holds exactly the
\* remaining n-2 of them.
C21_ReshuffleOnDraw ==
    (DrawNeedsReshuffle /\ Len(state.discardPile) >= 2) =>
        \A random \in RandomFns, t \in Times :
            LET n == Len(state.discardPile)
                top == state.discardPile[n]
                others == SeqRange(SubSeq(state.discardPile, 1, n - 1))
                r == drawCard(state, ActivePlayer, random, t)
                hand == r.state.players[findPlayerIndex(state, ActivePlayer) + 1].hand
            IN  /\ r.result.ok
                /\ r.state.discardPile = <<top>>
                /\ r.card # None
                /\ r.card[1] \in others
                /\ hand = Append(HandOf(ActivePlayer), r.card[1])
                /\ Len(r.state.drawPile) = n - 2
                /\ SeqRange(r.state.drawPile) = others \ {r.card[1]}

\* a draw has just recycled a discard pile of two cards: the one card below
\* the top went to the hand and the draw pile is empty again
C21_Witness ==
    /\ state.phase = "in-progress"
    /\ result = called("drawCard", ok)
    /\ reshuffles = 1
    /\ Len(state.discardPile) = 1
    /\ state.drawPile = <<>>
    /\ state.turn[1].hasDrawnCard

\* C22 as stated: with the draw pile empty and three cards on the discard
\* pile, a draw by the active player (who has no legal play) leaves a draw
\* pile of length 2 and a discard pile of length 1 with the former top card.
C22_Original ==
    (DrawNeedsReshuffle /\ Len(state.discardPile) = 3) =>
        \A random \in RandomFns :
            LET r == drawCard(state, ActivePlayer, random, 0)
            IN  /\ r.result.ok
                /\ Len(r.state.drawPile) = 2
                /\ r.state.discardPile = <<state.discardPile[3]>>

\* C22 as amended: with the draw pile empty and three cards on the discard
\* pile, a draw by the active player (who has no legal play) recycles the two
\* cards below the top and takes one of them, so it leaves a draw pile of
\* length 1 and a discard pile of length 1 with the former top card.
C22_ReshuffleOfThree ==
    (DrawNeedsReshuffle /\ Len(state.discardPile) = 3) =>
        \A random \in RandomFns :
            LET r == drawCard(state, ActivePlayer, random, 0)
            IN  /\ r.result.ok
                /\ r.reshuffled
                /\ Len(r.state.drawPile) = 1
                /\ r.state.discardPile = <<state.discardPile[3]>>

\* a draw has just recycled a discard pile of three cards
C22_Witness ==
    /\ state.phase = "in-progress"
    /\ result = called("drawCard", ok)
    /\ reshuffles = 1
    /\ Len(state.discardPile) = 1
    /\ Len(state.drawPile) = 1

\* C23: when the active player may draw, the draw pile is empty and the
\* discard pile holds at most one card, drawCard fails with NO_CARDS_TO_DRAW
\* and changes nothing: discard pile, draw pile, hands and hasDrawnCard stay.
C23_NoCardsToDraw ==
    (DrawNeedsReshuffle /\ Len(state.discardPile) <= 1) =>
        \A random \in RandomFns, t \in Times :
            LET r == drawCard(state, ActivePlayer, random, t)
            IN  /\ r.result = err("NO_CARDS_TO_DRAW")
                /\ r.card = None
                /\ r.state = state
                /\ r.state.turn[1].hasDrawnCard = FALSE

\* a draw has just been refused with the top card alone on the discard pile
C23_Witness ==
    /\ state.phase = "in-progress"
    /\ result = called("drawCard", err("NO_CARDS_TO_DRAW"))
    /\ Len(state.discardPile) = 1
    /\ state.drawPile = <<>>
    /\ ~state.turn[1].hasDrawnCard

\* every card of the deck has at least two other cards of its color or value
TwoOthersMatch(deck) ==
    \A i \in 1..Len(deck) :
        \E j, k \in (1..Len(deck)) \ {i} :
            /\ j # k
            /\ deck[j].color = deck[i].color \/ deck[j].value = deck[i].value
            /\ deck[k].color = deck[i].color \/ deck[k].value = deck[i].value

FullDeckTwoOthersMatch == TwoOthersMatch(FullDeck)

DeckTwoOthersMatch == TwoOthersMatch(createDeck)

\* C24: in a game started by startGame no sequence of play / draw / pass
\* calls reaches a state in which drawCard returns NO_CARDS_TO_DRAW, and in
\* every running state the active player has a call that succeeds: a play
\* when a legal card is held, a draw when none is held and none was drawn
\* this turn, a pass after drawing.  (A player who may draw with one discard
\* card and no draw pile would face an opponent who passed after drawing and
\* holds all but one of the cards matching the top card, which needs a deck
\* where fewer than two other cards match it.)
C24_NeverStuck ==
    /\ result.code # "NO_CARDS_TO_DRAW"
    /\ DeckTwoOthersMatch
    /\ FullDeckTwoOthersMatch
    /\ state.phase = "in-progress" =>
          LET legal == HasLegalPlay(HandOf(ActivePlayer))
              drawn == state.turn[1].hasDrawnCard
          IN  /\ \A random \in RandomFns :
                    drawCard(state, ActivePlayer, random, 0).result.code
                        # "NO_CARDS_TO_DRAW"
              /\ legal =>
                    \E id \in CardIds : playCard(state, ActivePlayer, id, 0).result.ok
              /\ (~legal /\ ~drawn) =>
                    \A random \in RandomFns :
                        drawCard(state, ActivePlayer, random, 0).result.ok
              /\ drawn => passTurn(state, ActivePlayer, 0).result.ok

\* the opponent has played and the active player holds no legal play while
\* the draw pile is empty: the only call that can succeed is a draw that
\* recycles the discard pile
C24_Witness ==
    /\ DrawNeedsReshuffle
    /\ result = called("playCard", ok)
    /\ Len(state.discardPile) >= 2

\* the card k places further in the deck (cyclically)
ShiftCard(card, k) ==
    LET i == CHOOSE i \in 1..Len(createDeck) : createDeck[i].id = card.id
    IN  createDeck[((i - 1 + k) % Len(createDeck)) + 1]

ShiftCards(cards, k) == [j \in 1..Len(cards) |-> ShiftCard(cards[j], k)]

\* s with every card of the hands, of the draw pile and below the discard
\* top replaced by another card, and the draw pile reversed
HiddenVariant(s, k) ==
    LET n == Len(s.discardPile)
        shifted == ShiftCards(s.drawPile, k)
    IN  [s EXCEPT
           !.players = [i \in 1..Len(s.players) |->
                           [id |-> s.players[i].id,
                            hand |-> ShiftCards(s.players[i].hand, k)]],
           !.drawPile = [j \in 1..Len(shifted) |-> shifted[Len(shifted) + 1 - j]],
           !.discardPile = IF n = 0 THEN <<>>
                           ELSE ShiftCards(SubSeq(s.discardPile, 1, n - 1), k)
                                \o <<s.discardPile[n]>>]

\* what the claim lets two states share
SamePublicFacts(s, v) ==
    /\ s.roomId = v.roomId /\ s.phase = v.phase
    /\ s.currentColor = v.currentColor /\ s.currentValue = v.currentValue
    /\ s.turn = v.turn /\ s.winnerId = v.winnerId
    /\ Len(s.players) = Len(v.players)
    /\ \A i \in 1..Len(s.players) :
          /\ s.players[i].id = v.players[i].id
          /\ Len(s.players[i].hand) = Len(v.players[i].hand)
    /\ (s.discardPile = <<>>) <=> (v.discardPile = <<>>)
    /\ s.discardPile # <<>> =>
          s.discardPile[Len(s.discardPile)] = v.discardPile[Len(v.discardPile)]

\* C25: getPublicState gives the same result for two states that agree on
\* room id, phase, current color / value, turn, winner, player ids, hand
\* lengths and discard top, whatever cards the hands, the draw pile and the
\* rest of the discard pile hold; each cardsCount is the hand length and
\* topDiscard is the last discard card.
C25_PublicStateHidesCards ==
    /\ \A k \in 1..2 :
          LET v == HiddenVariant(state, k)
          IN  SamePublicFacts(state, v) => getPublicState(v) = getPublicState(state)
    /\ LET p == getPublicState(state)
       IN  /\ Len(p.players) = Len(state.players)
           /\ \A i \in 1..Len(state.players) :
                 /\ p.players[i].id = state.players[i].id
                 /\ p.players[i].cardsCount = Len(state.players[i].hand)
           /\ state.discardPile # <<>> =>
                 p.topDiscard = <<state.discardPile[Len(state.discardPile)]>>

\* a running game with cards in both hands, in the draw pile and below the
\* discard top, so that the variants differ from it in all four places
C25_Witness ==
    /\ state.phase = "in-progress"
    /\ \A i \in 1..Len(state.players) : state.players[i].hand # <<>>
    /\ Len(state.players[1].hand) # Len(state.players[2].hand)
    /\ Len(state.drawPile) >= 2
    /\ Len(state.discardPile) >= 2
    /\ LET v == HiddenVariant(state, 1)
       IN  /\ SamePublicFacts(state, v)
           /\ v.players[1].hand # state.players[1].hand
           /\ v.players[2].hand # state.players[2].hand
           /\ v.drawPile # state.drawPile
           /\ v.discardPile # state.discardPile

\* the twelve kinds of failure
ErrorKinds ==
    {"GAME_NOT_READY", "GAME_ALREADY_STARTED", "PLAYER_ALREADY_JOINED",
     "ROOM_FULL", "NOT_ENOUGH_PLAYERS", "NOT_PLAYER_TURN", "CARD_NOT_PLAYABLE",
     "CARD_NOT_FOUND", "MUST_DRAW_FIRST", "ALREADY_DREW_CARD",
     "DRAW_PILE_EMPTY", "NO_CARDS_TO_DRAW"}

\* C26: every failure returned by joinGame, startGame, playCard, drawCard,
\* passTurn (the call made last), listPlayableCards or getPlayerHand is a
\* result value with one of the twelve kinds; INVALID_CARD and
\* NO_PLAYABLE_CARDS are never produced.
C26_ErrorKindsClosed ==
    /\ result.ok \/ result.code \in ErrorKinds
    /\ result.ok <=> result.code = "OK"
    /\ \A playerId \in PlayerIds :
          LET l == listPlayableCards(state, playerId).result
              h == getPlayerHand(state, playerId).result
          IN  /\ l.ok \/ l.code \in ErrorKinds
              /\ h.ok \/ h.code \in ErrorKinds

\* a play was refused in a running game in which an outsider's queries fail
\* and the active player's list of playable cards is empty
C26_Witness ==
    /\ state.phase = "in-progress"
    /\ ~result.ok
    /\ result.op = "playCard"
    /\ \E playerId \in PlayerIds :
          /\ ~listPlayableCards(state, playerId).result.ok
          /\ ~getPlayerHand(state, playerId).result.ok
    /\ listPlayableCards(state, ActivePlayer) = [result |-> ok, value |-> <<>>]

Occurrences(seq, x) == Cardinality({i \in 1..Len(seq) : seq[i] = x})

IsPermutationOf(out, in) ==
    /\ Len(out) = Len(in)
    /\ \A x \in SeqRange(in) \cup SeqRange(out) :
          Occurrences(out, x) = Occurrences(in, x)

ColorsOf(cards) == [i \in 1..Len(cards) |-> cards[i].color]

\* one input of shuffle, with every source
ShufflePermutes(items) ==
    \A random \in RandomFns :
        LET c == shuffleCall(items, random)
        IN  /\ c.items = items
            /\ c.value = shuffle(items, random)
            /\ IsPermutationOf(c.value, items)

\* shuffle on inputs that do not depend on the game: the empty sequence, one
\* element, the whole deck, and the deck's colors (equal elements)
ShuffleOfFixedInputs ==
    /\ ShufflePermutes(<<>>)
    /\ ShufflePermutes(<<"x">>)
    /\ ShufflePermutes(createDeck)
    /\ ShufflePermutes(ColorsOf(createDeck))

\* C27: for every input sequence and random source shuffle returns a
\* sequence of the same length in which each element occurs as often as in
\* the input, and leaves the input as it was.
C27_ShufflePermutes ==
    /\ ShuffleOfFixedInputs
    /\ ShufflePermutes(state.drawPile)
    /\ ShufflePermutes(ColorsOf(state.discardPile))

\* a game has just been dealt from a deck that the shuffle reordered, and
\* some source reorders its draw pile again
C27_Witness ==
    /\ result = called("startGame", ok)
    /\ Len(state.drawPile) >= 2
    /\ state.drawPile # SubSeq(createDeck, 1, Len(state.drawPile))
    /\ \E random \in RandomFns : shuffle(state.drawPile, random) # state.drawPile

\* the game state without its two timestamps
Game(s) == [s EXCEPT !.createdAt = 0, !.updatedAt = 0]

\* the same game in a run whose clock showed other values
OtherClock(s) == [s EXCEPT !.createdAt = 1 - @, !.updatedAt = 1 - @]

SameOutcome(r1, r2) == Game(r1.state) = Game(r2.state) /\ r1.result = r2.result

\* two sources that return the same values give the same shuffle of the deck
ShuffleUsesValuesOnly ==
    \A a \in 0..(RandDen - 1) :
        shuffle(createDeck, <<a>>) = shuffle(createDeck, <<a, a>>)

\* C28: two sources that return the same values give the same shuffle, and
\* each operation applied in two runs to the same game with the same
\* arguments and random values, at whatever times, returns the same result
\* and leaves the same hands, piles, turn and phase; so two runs of the same
\* calls from createGame stay equal in everything but the timestamps.
C28_SameRandomSameGame ==
    /\ ShuffleUsesValuesOnly
    /\ \A a \in 0..(RandDen - 1) :
          shuffle(state.discardPile, <<a>>) = shuffle(state.discardPile, <<a, a>>)
    /\ Game(createGame(RoomId, HostId, 0, 0)) = Game(createGame(RoomId, HostId, 1, 1))
    /\ \A playerId \in PlayerIds :
          /\ SameOutcome(joinGame(state, playerId, 0),
                         joinGame(OtherClock(state), playerId, 1))
          /\ SameOutcome(passTurn(state, playerId, 0),
                         passTurn(OtherClock(state), playerId, 1))
          /\ \A id \in CardIds :
                SameOutcome(playCard(state, playerId, id, 0),
                            playCard(OtherClock(state), playerId, id, 1))
          /\ \A random \in RandomFns :
                LET d1 == drawCard(state, playerId, random, 0)
                    d2 == drawCard(OtherClock(state), playerId, random, 1)
                IN  /\ SameOutcome(d1, d2)
                    /\ d1.card = d2.card /\ d1.isPlayable = d2.isPlayable
    /\ \A random \in RandomFns :
          SameOutcome(startGame(state, random, 0),
                      startGame(OtherClock(state), random, 1))

\* a game has been started at a later time than it was created, from a deck
\* that the caller's source reordered
C28_Witness ==
    /\ result = called("startGame", ok)
    /\ state.createdAt = 0 /\ state.updatedAt = 1
    /\ moves = 0
    /\ \E random \in RandomFns :
          /\ shuffle(createDeck, random) # createDeck
          /\ state.drawPile =
                SubSeq(shuffle(createDeck, random), 1, Len(state.drawPile))

\* color-major, then by value, the two copies of a value adjacent, with
\* pairwise distinct ids
DeckShape(deck, colors, values) ==
    LET perColor == 1 + 2 * (Len(values) - 1)
    IN  /\ Len(deck) = Len(colors) * perColor
        /\ \A i, j \in 1..Len(deck) : i # j => deck[i].id # deck[j].id
        /\ \A c \in 1..Len(colors) :
              LET base == (c - 1) * perColor
              IN  /\ deck[base + 1].color = colors[c]
                  /\ deck[base + 1].value = 0
                  /\ \A v \in 1..(Len(values) - 1) :
                        /\ deck[base + 2 * v].color = colors[c]
                        /\ deck[base + 2 * v].value = v
                        /\ deck[base + 2 * v + 1].color = colors[c]
                        /\ deck[base + 2 * v + 1].value = v

CopiesIn(deck, color, value) ==
    Cardinality({i \in 1..Len(deck) : deck[i].color = color /\ deck[i].value = value})

\* the deck at the dimensions of the program
FullDeckShape ==
    /\ Len(FullDeck) = 76
    /\ Len(ALL_COLORS) = 4
    /\ DeckShape(FullDeck, ALL_COLORS, ALL_VALUES)
    /\ \A c \in 1..4 :
          /\ CopiesIn(FullDeck, ALL_COLORS[c], 0) = 1
          /\ \A v \in 1..9 : CopiesIn(FullDeck, ALL_COLORS[c], v) = 2

\* the deck of the explored games
ScaledDeckShape ==
    /\ DeckShape(createDeck, UNO_COLORS, UNO_VALUES)
    /\ Len(createDeck) = DeckComposition

\* C29: createDeck returns 76 cards with pairwise distinct ids: for each of
\* the 4 colors one card of value 0 and two of each value 1 to 9, ordered
\* color-major, then by value, the two copies of a value adjacent.  The deck
\* of the explored games has the same shape at its dimensions, and every card
\* in a game is one of its cards.
C29_DeckOfSeventySix ==
    /\ FullDeckShape
    /\ ScaledDeckShape
    /\ SeqRange(AllCards) \subseteq SeqRange(createDeck)

\* a game has been dealt and every card of the deck is in it
C29_Witness ==
    /\ result = called("startGame", ok)
    /\ Len(AllCards) = Len(createDeck)
    /\ SeqRange(AllCards) = SeqRange(createDeck)

\* C30: startGame deals from the end of the shuffled deck, one card per
\* player per round: counting from the top, the first player of the turn
\* order gets the 1st, 3rd, ... card and the second the 2nd, 4th, ..., each
\* hand in the order dealt; the next card (the 15th with hands of 7) is the
\* only discard card and the cards left (61 of 76) are the draw pile in
\* their shuffled order.
C30_DealInterleaved ==
    state.phase = "ready-to-start" =>
        \A random \in RandomFns :
            LET deck == shuffle(createDeck, random)
                n == Len(deck)
                s == startGame(state, random, 0).state
                first == findPlayerIndex(state, state.playerOrder[1]) + 1
                second == findPlayerIndex(state, state.playerOrder[2]) + 1
            IN  /\ s.players[first].hand =
                      [k \in 1..CARDS_PER_PLAYER |-> deck[n - 2 * (k - 1)]]
                /\ s.players[second].hand =
                      [k \in 1..CARDS_PER_PLAYER |-> deck[n - 2 * (k - 1) - 1]]
                /\ s.discardPile = <<deck[n - 2 * CARDS_PER_PLAYER]>>
                /\ s.drawPile = SubSeq(deck, 1, n - 2 * CARDS_PER_PLAYER - 1)

\* a game has just been dealt: the host holds the top card of some shuffled
\* deck and the second player the card below it
C30_Witness ==
    /\ result = called("startGame", ok)
    /\ moves = 0
    /\ \E random \in RandomFns :
          LET deck == shuffle(createDeck, random)
          IN  /\ state.players[1].hand[1] = deck[Len(deck)]
              /\ state.players[2].hand[1] = deck[Len(deck) - 1]
              /\ state.players[1].hand[2] = deck[Len(deck) - 2]

----------------------------------------------------------------------------
(* Turn ownership *)

\* the player whose turn it is in game s, None when no turn is pending
ActiveIn(s) == IF s.turn = None THEN None ELSE Some(s.turn[1].activePlayerId)

\* the seated player who is not the active one
OtherSeated == SeatedIds \ {ActivePlayer}

\* C31: in an in-progress game the active player changes only by a successful
\* passTurn or a successful non-winning playCard of the active player, and
\* then to the other seated player; drawCard, every failed call and every
\* call of a player who is not active leave the active player as it was.
C31_TurnChangesOnlyByMove ==
    state.phase = "in-progress" =>
        /\ \A playerId \in PlayerIds, t \in Times :
              /\ \A id \in CardIds :
                    LET r == playCard(state, playerId, id, t)
                    IN  /\ r.result.ok => playerId = ActivePlayer
                        /\ (r.result.ok /\ r.state.phase = "in-progress") =>
                              /\ r.state.turn # None
                              /\ r.state.turn[1].activePlayerId \in OtherSeated
                        /\ ~r.result.ok => ActiveIn(r.state) = ActiveIn(state)
              /\ LET r == passTurn(state, playerId, t)
                 IN  /\ r.result.ok =>
                           /\ playerId = ActivePlayer
                           /\ r.state.turn # None
                           /\ r.state.turn[1].activePlayerId \in OtherSeated
                     /\ ~r.result.ok => ActiveIn(r.state) = ActiveIn(state)
              /\ \A random \in RandomFns :
                    ActiveIn(drawCard(state, playerId, random, t).state) = ActiveIn(state)
              /\ ActiveIn(joinGame(state, playerId, t).state) = ActiveIn(state)
        /\ \A random \in RandomFns, t \in Times :
              ActiveIn(startGame(state, random, t).state) = ActiveIn(state)

\* the turn has just gone over to the host's opponent by a successful pass
C31_Witness ==
    /\ state.phase = "in-progress"
    /\ result = called("passTurn", ok)
    /\ ActivePlayer # HostId

\* the per-turn flag of game s: TRUE when a turn is pending and its player
\* has drawn
DrawnIn(s) == s.turn # None /\ s.turn[1].hasDrawnCard

\* s is a state that directly follows a change of the active player of the
\* current state
TurnChangedTo(s) == s.turn # None /\ ActiveIn(s) # ActiveIn(state)

\* C32: the per-turn flag is reset at every turn change: directly after a
\* successful startGame and directly after every change of the active player
\* hasDrawnCard is false, and it goes from false to true only by a
\* successful drawCard of the active player.
C32_FlagResetEachTurn ==
    /\ \A random \in RandomFns, t \in Times :
          LET r == startGame(state, random, t)
          IN  /\ r.result.ok => r.state.turn # None /\ ~DrawnIn(r.state)
              /\ TurnChangedTo(r.state) => ~DrawnIn(r.state)
              /\ ~DrawnIn(state) => ~DrawnIn(r.state)
    /\ \A playerId \in PlayerIds, t \in Times :
          /\ \A id \in CardIds :
                LET r == playCard(state, playerId, id, t)
                IN  /\ TurnChangedTo(r.state) => ~DrawnIn(r.state)
                    /\ ~DrawnIn(state) => ~DrawnIn(r.state)
          /\ LET r == passTurn(state, playerId, t)
             IN  /\ TurnChangedTo(r.state) => ~DrawnIn(r.state)
                 /\ ~DrawnIn(state) => ~DrawnIn(r.state)
          /\ LET r == joinGame(state, playerId, t)
             IN  /\ TurnChangedTo(r.state) => ~DrawnIn(r.state)
                 /\ ~DrawnIn(state) => ~DrawnIn(r.state)
          /\ \A random \in RandomFns :
                LET r == drawCard(state, playerId, random, t)
                IN  /\ TurnChangedTo(r.state) => ~DrawnIn(r.state)
                    /\ (~DrawnIn(state) /\ DrawnIn(r.state)) =>
                          /\ r.result.ok
                          /\ state.turn # None
                          /\ playerId = ActivePlayer

\* a turn has just begun after the previous player played a card, and the
\* flag is down
C32_Witness ==
    /\ state.phase = "in-progress"
    /\ result = called("playCard", ok)
    /\ ~state.turn[1].hasDrawnCard
    /\ Len(state.discardPile) >= 3

\* C33: while the game is not finished, playCard, drawCard and passTurn make
\* the same first two checks: in a phase other than in-progress each fails
\* with GAME_NOT_READY whoever calls, and in progress each fails with
\* NOT_PLAYER_TURN for every caller other than the active player, seated or
\* not, whatever card is named and whatever hasDrawnCard is.
C33_MoveChecksPhaseThenTurn ==
    state.phase # "finished" =>
        \A playerId \in PlayerIds, t \in Times :
            LET expected ==
                    IF state.phase # "in-progress" THEN Some(err("GAME_NOT_READY"))
                    ELSE IF playerId # ActivePlayer THEN Some(err("NOT_PLAYER_TURN"))
                    ELSE None
            IN  expected # None =>
                    /\ \A id \in CardIds :
                          playCard(state, playerId, id, t).result = expected[1]
                    /\ \A random \in RandomFns :
                          drawCard(state, playerId, random, t).result = expected[1]
                    /\ passTurn(state, playerId, t).result = expected[1]

\* the opponent of the active player, who holds a legal play, was refused a
\* move after the active player had drawn
C33_Witness ==
    /\ state.phase = "in-progress"
    /\ result.code = "NOT_PLAYER_TURN"
    /\ state.turn[1].hasDrawnCard
    /\ \E p \in OtherSeated : HasLegalPlay(HandOf(p))

\* the cards of hand other than the one named id, in the order of hand
Without(hand, id) == SelectSeq(hand, LAMBDA c : c.id # id)

\* C34: listPlayableCards and getPlayerHand only read the game:
\* listPlayableCards fails with GAME_NOT_READY for every caller before the
\* game has started, both fail with PLAYER_ALREADY_JOINED for an id that is
\* not seated, and for a seated id getPlayerHand returns in every phase the
\* whole hand in insertion order (a drawn card comes last, a played card
\* leaves the order of the others as it was).
C34_ReadOnlyQueries ==
    \A playerId \in PlayerIds :
        LET l == listPlayableCards(state, playerId)
            h == getPlayerHand(state, playerId)
        IN  /\ ~Started => l.result = err("GAME_NOT_READY")
            /\ playerId \notin SeatedIds =>
                  /\ h.result = err("PLAYER_ALREADY_JOINED")
                  /\ Started => l.result = err("PLAYER_ALREADY_JOINED")
            /\ playerId \in SeatedIds =>
                  /\ h.result.ok
                  /\ \E i \in 1..Len(state.players) :
                        /\ state.players[i].id = playerId
                        /\ h.value = state.players[i].hand
                  /\ \A t \in Times :
                        /\ \A random \in RandomFns :
                              LET d == drawCard(state, playerId, random, t)
                              IN  d.result.ok =>
                                    getPlayerHand(d.state, playerId).value
                                        = Append(h.value, d.card[1])
                        /\ \A id \in CardIds :
                              LET r == playCard(state, playerId, id, t)
                              IN  r.result.ok =>
                                    getPlayerHand(r.state, playerId).value
                                        = Without(h.value, id)

\* a finished game in which the loser still holds cards, one of them drawn
C34_Witness ==
    /\ state.phase = "finished"
    /\ \E i \in 1..Len(state.players) : Len(state.players[i].hand) > CARDS_PER_PLAYER
    /\ PlayerIds \ SeatedIds # {}

\* C35: whenever hasDrawnCard is true the active player holds at most one
\* legal play, and it is the card drawn this turn, the last card of the
\* hand: after drawing, the only card the player can play successfully in
\* that turn is the card just drawn.
C35_OnlyDrawnCardPlayable ==
    (state.phase = "in-progress" /\ state.turn # None /\ state.turn[1].hasDrawnCard) =>
        LET hand == HandOf(ActivePlayer)
        IN  /\ hand # <<>>
            /\ \A k \in 1..Len(hand) : Matches(hand[k]) => k = Len(hand)
            /\ \A id \in CardIds, t \in Times :
                  playCard(state, ActivePlayer, id, t).result.ok =>
                      id = hand[Len(hand)].id

\* the active player has just drawn a card that is a legal play
C35_Witness ==
    /\ state.phase = "in-progress"
    /\ result = called("drawCard", ok)
    /\ state.turn[1].hasDrawnCard
    /\ Matches(HandOf(ActivePlayer)[Len(HandOf(ActivePlayer))])

\* playerId passes every check drawCard makes before it turns to the piles
MayDraw(playerId) ==
    /\ state.phase = "in-progress" /\ state.turn # None
    /\ playerId = ActivePlayer
    /\ ~state.turn[1].hasDrawnCard
    /\ ~HasLegalPlay(HandOf(playerId))

\* C36: DRAW_PILE_EMPTY is never returned in a state reachable from
\* createGame: startGame with two players deals every hand and the first
\* discard without running out, and drawCard obtains a card whenever the
\* draw pile is non-empty or the reshuffle succeeded.
C36_NeverDrawPileEmpty ==
    /\ result.code # "DRAW_PILE_EMPTY"
    /\ \A random \in RandomFns, t \in Times :
          LET s == startGame(state, random, t)
          IN  /\ s.result.code # "DRAW_PILE_EMPTY"
              /\ (~Started /\ Len(state.players) = 2) =>
                    /\ s.result.ok
                    /\ \A i \in 1..2 : Len(s.state.players[i].hand) = CARDS_PER_PLAYER
                    /\ Len(s.state.discardPile) = 1
    /\ \A playerId \in PlayerIds, random \in RandomFns, t \in Times :
          LET d == drawCard(state, playerId, random, t)
          IN  /\ d.result.code # "DRAW_PILE_EMPTY"
              /\ (/\ MayDraw(playerId)
                  /\ \/ state.drawPile # <<>>
                     \/ replenishDrawPile(state, random).result.ok) =>
                    d.result.ok /\ d.card # None

\* a card was drawn from a pile that had to be refilled from the discards
C36_Witness ==
    /\ state.phase = "in-progress"
    /\ result = called("drawCard", ok)
    /\ reshuffles > 0
    /\ Len(state.discardPile) = 1

\* the ids of the seated players of game s, in seat order
SeatIds(s) == [i \in 1..Len(s.players) |-> s.players[i].id]

\* every card game s holds: all hands, then the draw pile, then the discards
CardsOf(s) == concatHands(s.players, 1) \o s.drawPile \o s.discardPile

\* s keeps the room, the seats and the turn order of the current state, and
\* holds the same cards
SameRoomAndSeats(s) ==
    /\ s.roomId = state.roomId
    /\ s.createdAt = state.createdAt
    /\ SeatIds(s) = SeatIds(state)
    /\ s.playerOrder = state.playerOrder
    /\ SeqRange(CardsOf(s)) = SeqRange(AllCards)
    /\ Len(CardsOf(s)) = Len(AllCards)

\* C37: once startGame has succeeded the room id, the seated players and
\* their order and the turn-order list never change: playCard, drawCard and
\* passTurn only move cards between hands and piles and update turn, phase,
\* winner and current color / value, and every later joinGame fails.
C37_SeatsFixedAfterStart ==
    Started =>
        /\ state.playerOrder = SeatIds(state)
        /\ \A playerId \in PlayerIds, t \in Times :
              /\ LET j == joinGame(state, playerId, t)
                 IN  ~j.result.ok /\ j.state = state
              /\ \A id \in CardIds :
                    SameRoomAndSeats(playCard(state, playerId, id, t).state)
              /\ \A random \in RandomFns :
                    SameRoomAndSeats(drawCard(state, playerId, random, t).state)
              /\ SameRoomAndSeats(passTurn(state, playerId, t).state)
        /\ \A random \in RandomFns, t \in Times :
              SameRoomAndSeats(startGame(state, random, t).state)

\* a third player was turned away from a game in which cards have been played
C37_Witness ==
    /\ state.phase = "in-progress"
    /\ result = called("joinGame", err("GAME_ALREADY_STARTED"))
    /\ Len(state.discardPile) >= 2
    /\ state.turn[1].hasDrawnCard

----------------------------------------------------------------------------
(* Room bookkeeping of the bot *)

\* the entry of player in playerToRoom names a room of rooms that holds player
MappedToOwnRoom(mgr, player) ==
    /\ mgr.playerToRoom[player] \in DOMAIN mgr.rooms
    /\ has(mgr.rooms[mgr.playerToRoom[player]].players, player)

\* C38: after one player of a two-player room calls leaveRoom, which deletes
\* the room, the remaining player is in no room: with no call in between,
\* createRoom by the remaining player succeeds and joinRoom does not throw
\* ALREADY_IN_ROOM; playerToRoom never keeps an entry that names a deleted
\* room or a room that does not hold the player.
C38_Original ==
    /\ \A player \in DOMAIN playerToRoom : MappedToOwnRoom(manager, player)
    /\ \A leaver \in PlayerIds : \A remaining \in PlayerIds \ {leaver} :
          LET found == getRoomByPlayer(manager, leaver)
          IN  (/\ found.room # None
               /\ Len(found.room[1].players) = 2
               /\ has(found.room[1].players, remaining)) =>
                  LET left == leaveRoom(manager, leaver)
                  IN  /\ remaining \notin DOMAIN left.mgr.playerToRoom
                      /\ \A roomId \in RoomCodes \ DOMAIN left.mgr.rooms, t \in BotTimes :
                            createRoom(left.mgr, remaining, roomId, created, t).thrown = None
                      /\ \A roomCode \in RoomCodes, t \in BotTimes :
                            joinRoom(left.mgr, roomCode, remaining, t).thrown
                                # Some("ALREADY_IN_ROOM")

\* a player has left a two-player room and the opponent's entry still names
\* the deleted room
C38_Witness ==
    /\ outcome = [op |-> "leaveRoom", code |-> "OK"]
    /\ \E player \in DOMAIN playerToRoom : playerToRoom[player] \notin DOMAIN rooms

\* C39: a joinRoom that throws (the player already has an entry in
\* playerToRoom, the room is unknown, or joinGame fails with
\* GAME_ALREADY_STARTED, PLAYER_ALREADY_JOINED or ROOM_FULL) leaves rooms,
\* the room's player map, playerToRoom and the game as they were; and the
\* ids in the player map of every room are exactly the ids seated in the
\* room's game.
C39_FailedJoinChangesNothing ==
    /\ \A roomId \in RoomCodes \cup {generateRoomId("D")},
          player \in PlayerIds, t \in BotTimes :
          LET joined == joinRoom(manager, roomId, player, t)
          IN  joined.thrown # None =>
                  /\ joined.mgr = manager
                  /\ joined.thrown[1] \in
                        {"ALREADY_IN_ROOM", "ROOM_NOT_FOUND", "GAME_ALREADY_STARTED",
                         "PLAYER_ALREADY_JOINED", "ROOM_FULL"}
                  /\ joined.thrown[1] = "ALREADY_IN_ROOM" <=> player \in DOMAIN playerToRoom
    /\ \A roomId \in DOMAIN rooms :
          rooms[roomId].players = SeatIds(rooms[roomId].game)

\* a third player was refused by a full room that has not started
C39_Witness ==
    /\ outcome = [op |-> "joinRoom", code |-> "ROOM_FULL"]
    /\ \E roomId \in DOMAIN rooms :
          /\ Len(rooms[roomId].players) = 2
          /\ rooms[roomId].game.phase = "ready-to-start"

\* the room the suspended /join handler h joined is still in rooms
StillThere(h) ==
    /\ h.roomCode \in DOMAIN rooms
    /\ rooms[h.roomCode].ref = h.room

\* C40: under every interleaving of the /create, /join and /leave handlers
\* at their await points, the startRoom of a /join handler applies startGame
\* only while the room it joined still exists, with two seated players, and
\* startGame succeeds at most once per room; when the host has left during
\* the joiner's await, so that the room is gone, startRoom throws
\* ROOM_NOT_FOUND and no cards are dealt.
C40_Original ==
    \A k \in 1..Len(pending), random \in BotRandomFns, t \in BotTimes :
        LET h == pending[k]
            r == startRoom(manager, h.roomCode, random, t)
        IN  /\ r.thrown # Some("ROOM_NOT_FOUND") =>
                  /\ StillThere(h)
                  /\ Len(rooms[h.roomCode].game.players) = 2
            /\ r.thrown = None =>
                  /\ rooms[h.roomCode].game.phase = "ready-to-start"
                  /\ startRoom(r.mgr, h.roomCode, random, t).thrown
                        = Some("GAME_ALREADY_STARTED")
            /\ ~StillThere(h) =>
                  /\ r.thrown = Some("ROOM_NOT_FOUND")
                  /\ r.mgr = manager

\* a /join handler is suspended, the room it joined was deleted when its
\* host left, and the code of that room has gone to a new room
C40_Witness ==
    \E k \in 1..Len(pending) :
        /\ pending[k].roomCode \in DOMAIN rooms
        /\ rooms[pending[k].roomCode].ref # pending[k].room
        /\ outcome = [op |-> "createRoom", code |-> "OK"]

====
